---- MODULE Spec2Model ----
(***************************************************************************)
(* TrainerControl: the ANT message dispatch core (AntStick, AntChannel),   *)
(* the two device profiles built on it (HeartRateMonitor,                  *)
(* FitnessEquipmentControl) and the part of TelemetryServer that owns the  *)
(* two profile objects.                                                    *)
(*                                                                         *)
(* Buffers are sequences of bytes.  The source indexes buffers from 0, so  *)
(* data[k] of the source is At(data, k) here.  What the USB reader returns *)
(* and whether a USB write completes are inputs of each step.              *)
(***************************************************************************)
EXTENDS Integers, Sequences, FiniteSets, TLC

VARIABLES
    chan,               \* TelemetryServer::m_Hrm / m_Fec: the two profile objects
    m_Channels,         \* AntStick::m_Channels, the registry (profile names, in order)
    m_DelayedMessages,  \* AntStick::m_DelayedMessages
    m_LastReadMessage,  \* AntStick::m_LastReadMessage
    phase,              \* "run": the server loop runs; "down": an exception unwound it
    written,            \* the buffers handed to AntStick::WriteMessage by the last step
    calls,              \* profile hooks invoked by the last step
    step,               \* what the last step was, and on which profile it acted
    arrived,            \* history: the frames the reader has returned that no round
                        \* trip took as its response and no Tick has taken, oldest first
    m_Reader,           \* AntStick::m_Reader: m_Buffer, m_Mark, m_Active
    m_Writer,           \* AntStick::m_Writer: m_Buffer, m_Active, and m_Transfer->status
    usb,                \* the dongle and libusb: the bytes the dongle has yet to send,
                        \* and which transfers are in flight
    call,               \* the call of the reader or writer in progress or last made:
                        \* where it is, its message and what it raised
    results,            \* history: the frames the reader returned and rejected
    now,                \* CurrentMilliseconds(), a 32-bit count of milliseconds,
                        \* as its two 16-bit halves
    readings,           \* the readings of HeartRateMonitor and FitnessEquipmentControl
                        \* with their timestamps
    out                 \* the Telemetry that CollectTelemetry filled last

(* The history variable of the dispatch, which no operation reads *)
history == <<arrived>>

(* The USB transport and the framer *)
transport == <<m_Reader, m_Writer, usb, call, results>>

(* The dispatch core *)
dispatch == <<chan, m_Channels, m_DelayedMessages, m_LastReadMessage, phase,
              written, calls, step>>

(* The readings of the profiles and the clock they are stamped with *)
telemetry == <<now, readings, out>>

vars == <<dispatch, history, transport, telemetry>>

-----------------------------------------------------------------------------
(* Bounds of the model *)

MaxQueue == 2       \* longest m_AckDataQueue explored
MaxDelayed == 2     \* longest m_DelayedMessages explored
MaxCount == 1       \* m_MessagesReceived / m_MessagesFailed are counted up to here

-----------------------------------------------------------------------------
(* enum AntMessageId *)

SYNC_BYTE == 164
UNASSIGN_CHANNEL == 65
ASSIGN_CHANNEL == 66
SET_CHANNEL_ID == 81
SET_CHANNEL_PERIOD == 67
SET_CHANNEL_SEARCH_TIMEOUT == 68
SET_CHANNEL_RF_FREQ == 69
OPEN_CHANNEL == 75
CLOSE_CHANNEL == 76
REQUEST_MESSAGE == 77
BROADCAST_DATA == 78
ACKNOWLEDGE_DATA == 79
BURST_TRANSFER_DATA == 80
CHANNEL_RESPONSE == 64
RESPONSE_CHANNEL_ID == 81

(* enum AntChannelEvent *)

RESPONSE_NO_ERROR == 0
EVENT_RX_SEARCH_TIMEOUT == 1
EVENT_RX_FAIL == 2
EVENT_TRANSFER_TX_COMPLETED == 5
EVENT_TRANSFER_TX_FAILED == 6
EVENT_CHANNEL_CLOSED == 7
EVENT_RX_FAIL_GO_TO_SEARCH == 8
CHANNEL_IN_WRONG_STATE == 21

(* enum ChannelType *)

BIDIRECTIONAL_RECEIVE == 0

(* Profile configuration: HeartRateMonitor.cpp and FitnessEquipmentControl.cpp *)

HRM_DEVICE_TYPE == 120
HRM_CHANNEL_PERIOD == 8070
FEC_DEVICE_TYPE == 17
FEC_CHANNEL_PERIOD == 8192
CHANNEL_FREQUENCY == 57
SEARCH_TIMEOUT == 30

DP_GENERAL == 16
DP_TRAINER_SPECIFIC == 25
DP_USER_CONFIG == 55
DP_FE_CAPABILITIES == 54
DP_TRACK_RESISTANCE == 51
DP_DP_REQUEST == 70

(* AntStick::ReadInternalMessage gives up after this many set-aside frames *)
ReadRetries == 50

(* AntStick::m_MaxChannels, as reported by the dongle (RESPONSE_CAPABILITIES): *)
(* a dongle with four channels                                              *)
m_MaxChannels == 4

(* AntStick::m_Network after SetNetworkKey *)
m_Network == 0

-----------------------------------------------------------------------------
(* Bytes and buffers *)

At(data, k) == data[k + 1]

RECURSIVE XorBits(_, _, _)
XorBits(a, b, n) ==
    IF n = 0 THEN 0
    ELSE (((a % 2) + (b % 2)) % 2) + (2 * XorBits(a \div 2, b \div 2, n - 1))

(* a ^ b on bytes, by nibbles *)
XorNibbles == [a \in 0..15 |-> [b \in 0..15 |-> XorBits(a, b, 4)]]

Xor(a, b) == (XorNibbles[a \div 16][b \div 16] * 16) + XorNibbles[a % 16][b % 16]

(* c ^= e for every byte e of b, from c = 0; the bytes are taken by halves, *)
(* which gives the same byte as ^ is associative, to keep the evaluation of *)
(* a long buffer shallow                                                    *)
RECURSIVE XorAll(_)
XorAll(b) ==
    IF b = <<>> THEN 0
    ELSE IF Len(b) = 1 THEN Xor(0, b[1])
    ELSE Xor(XorAll(SubSeq(b, 1, Len(b) \div 2)),
             XorAll(SubSeq(b, (Len(b) \div 2) + 1, Len(b))))

AddMessageChecksum(b) == Append(b, XorAll(b))

IsGoodChecksum(message) == XorAll(message) = 0

(* All MakeMessage overloads: SYNC, data length, id, data bytes, checksum.  *)
(* Every data0, data1.. parameter is a uint8_t.                             *)
MakeMessage(id, data) ==
    AddMessageChecksum(<<SYNC_BYTE, Len(data) % 256, id>>
                       \o [i \in 1..Len(data) |-> data[i] % 256])

-----------------------------------------------------------------------------
(* One step's execution context: the channel object the code acts on (c),  *)
(* what the USB reader will return to this step (inp), the buffers written  *)
(* so far (w), the delayed queue (d), the hooks called so far (hooks),      *)
(* m_LastReadMessage (resp), whether an exception is propagating (threw),   *)
(* which WriteMessage call of the step fails (wfail, 0 for none), and what   *)
(* the out-of-range conversion of the rolling resistance yields (rr).       *)

Context(c, last, inp, d, wfail, rr) ==
    [c |-> c, inp |-> inp, w |-> <<>>, d |-> d, hooks |-> <<>>,
     resp |-> last, threw |-> FALSE, wfail |-> wfail, rr |-> rr]

(* AntStick::WriteMessage -> AntMessageWriter::WriteMessage: the buffer is  *)
(* handed to the USB device; an incomplete transfer raises LibusbError.     *)
WriteMessage(x, b) ==
    IF x.threw THEN x
    ELSE [x EXCEPT !.w = Append(@, b), !.threw = (Len(x.w) + 1 = x.wfail)]

SetAsideMessage(message) ==
    \/ At(message, 2) = BROADCAST_DATA
    \/ At(message, 2) = BURST_TRANSFER_DATA
    \/ /\ At(message, 2) = CHANNEL_RESPONSE
       /\ \/ At(message, 4) = 1
          \/ At(message, 4) = ACKNOWLEDGE_DATA
          \/ At(message, 4) = BURST_TRANSFER_DATA

(* Mutant: a set-aside frame goes to the front of m_DelayedMessages *)
RECURSIVE ReadLoopPushFront(_, _)
ReadLoopPushFront(x, i) ==
    IF i >= ReadRetries THEN [x EXCEPT !.resp = <<>>]
    ELSE IF x.inp = <<>> THEN [x EXCEPT !.resp = <<>>, !.threw = TRUE]
    ELSE IF SetAsideMessage(Head(x.inp))
         THEN ReadLoopPushFront([x EXCEPT !.inp = Tail(@), !.resp = Head(x.inp),
                                          !.d = <<Head(x.inp)>> \o @], i + 1)
         ELSE [x EXCEPT !.inp = Tail(@), !.resp = Head(x.inp)]

(* Mutant: a set-aside frame is skipped and not kept *)
RECURSIVE ReadLoopSkips(_, _)
ReadLoopSkips(x, i) ==
    IF i >= ReadRetries THEN [x EXCEPT !.resp = <<>>]
    ELSE IF x.inp = <<>> THEN [x EXCEPT !.resp = <<>>, !.threw = TRUE]
    ELSE IF SetAsideMessage(Head(x.inp))
         THEN ReadLoopSkips([x EXCEPT !.inp = Tail(@), !.resp = Head(x.inp)], i + 1)
         ELSE [x EXCEPT !.inp = Tail(@), !.resp = Head(x.inp)]

(* The loop of AntStick::ReadInternalMessage; AntMessageReader::GetNextMessage *)
(* raises a timeout when the reader has nothing more to return.             *)
RECURSIVE ReadLoop(_, _)
ReadLoop(x, i) ==
    IF i >= ReadRetries THEN [x EXCEPT !.resp = <<>>]
    ELSE IF x.inp = <<>> THEN [x EXCEPT !.resp = <<>>, !.threw = TRUE]
    ELSE IF SetAsideMessage(Head(x.inp))
         THEN ReadLoop([x EXCEPT !.inp = Tail(@), !.resp = Head(x.inp),
                                 !.d = Append(@, Head(x.inp))], i + 1)
         ELSE [x EXCEPT !.inp = Tail(@), !.resp = Head(x.inp)]

ReadInternalMessage(x) == IF x.threw THEN x ELSE ReadLoop(x, 0)

(* unwinding is std::uncaught_exception() *)
CheckChannelResponse(x, channel, cmd, status, unwinding) ==
    IF x.threw THEN x
    ELSE IF Len(x.resp) < 5 THEN [x EXCEPT !.threw = ~unwinding]
    ELSE IF \/ At(x.resp, 2) # CHANNEL_RESPONSE
            \/ At(x.resp, 3) # channel
            \/ At(x.resp, 4) # cmd
            \/ At(x.resp, 5) # status
         THEN [x EXCEPT !.threw = ~unwinding]
         ELSE x

(* Mutant: the response is read and not checked *)
CommandUnchecked(x, channel, cmd, data, unwinding) ==
    ReadInternalMessage(WriteMessage(x, MakeMessage(cmd, <<channel>> \o data)))

(* A configuration command: write it, read the response, check it *)
Command(x, channel, cmd, data, unwinding) ==
    CheckChannelResponse(
        ReadInternalMessage(WriteMessage(x, MakeMessage(cmd, <<channel>> \o data))),
        channel, cmd, 0, unwinding)

-----------------------------------------------------------------------------
(* Channel objects.  kind is the derived class: "hrm" is HeartRateMonitor,  *)
(* "fec" is FitnessEquipmentControl.  sent, learned, heard and unassigns    *)
(* are history: they record what the object did and are never read by the  *)
(* operations.  heard is the two device number bytes and the transmission   *)
(* type byte of the RESPONSE_CHANNEL_ID the object took the number learned  *)
(* from; first is the tag of the first ACKNOWLEDGE_DATA the object wrote    *)
(* since it was constructed or last took a device number, 0 before.         *)

Profiles == {"hrm", "fec"}

NoChannel == [alive |-> FALSE]

DeviceTypeOf(kind) == IF kind = "hrm" THEN HRM_DEVICE_TYPE ELSE FEC_DEVICE_TYPE
PeriodOf(kind) == IF kind = "hrm" THEN HRM_CHANNEL_PERIOD ELSE FEC_CHANNEL_PERIOD

Inc(n) == IF n < MaxCount THEN n + 1 ELSE n

(* m_State at the end of AntChannel::AntChannel *)
InitialState == "CH_SEARCHING"

(* The object as the constructors' initialisers leave it: AntChannel's      *)
(* member initialisers, m_State = CH_SEARCHING, and the derived class's     *)
(* constructor body.                                                        *)
NewChannel(kind, number, device_number) ==
    [alive |-> TRUE,
     kind |-> kind,
     m_ChannelNumber |-> number,
     m_State |-> InitialState,
     DeviceType |-> DeviceTypeOf(kind),
     DeviceNumber |-> device_number,
     m_IdReqestOutstanding |-> FALSE,
     m_AckDataRequestOutstanding |-> FALSE,
     m_AckDataQueue |-> <<>>,
     m_MessagesReceived |-> 0,
     m_MessagesFailed |-> 0,
     m_CapabilitiesStatus |-> "CAPABILITIES_UNKNOWN",
     m_UpdateUserConfig |-> (kind = "fec"),
     m_Slope |-> 0,
     learned |-> device_number,
     heard |-> <<>>,
     first |-> 0,
     unassigns |-> 0]

(* AntStick::NextChannelId over the channel numbers in use; -1 when none is free *)
(* Mutant: the next number is the number of registered channels *)
NextChannelIdByCount(used, i) ==
    IF Cardinality(used) >= m_MaxChannels THEN -1 ELSE Cardinality(used)

RECURSIVE NextChannelIdFrom(_, _)
NextChannelIdFrom(used, i) ==
    IF i >= m_MaxChannels THEN -1
    ELSE IF i \in used THEN NextChannelIdFrom(used, i + 1)
    ELSE i

NextChannelId(used) == NextChannelIdFrom(used, 0)

(* AntChannel::Configure *)
Configure(x, number, period, timeout, frequency) ==
    LET x1 == Command(x, number, SET_CHANNEL_PERIOD,
                      <<period % 256, (period \div 256) % 256>>, FALSE)
        x2 == Command(x1, number, SET_CHANNEL_SEARCH_TIMEOUT, <<timeout>>, FALSE)
    IN  Command(x2, number, SET_CHANNEL_RF_FREQ, <<frequency>>, FALSE)

(* AntChannel::AntChannel followed by the derived constructor's body: x.c   *)
(* is the new object when no exception is raised.                           *)
Constructed(x, kind, number, device_number) ==
    IF x.threw THEN x ELSE [x EXCEPT !.c = NewChannel(kind, number, device_number)]

AntChannel(x, kind, device_number, used) ==
    LET number == NextChannelId(used)
        x1 == Command(x, number, ASSIGN_CHANNEL,
                      <<BIDIRECTIONAL_RECEIVE, m_Network>>, FALSE)
        x2 == Command(x1, number, SET_CHANNEL_ID,
                      <<device_number % 256,
                        (device_number \div 256) % 256,
                        DeviceTypeOf(kind),
                        ((device_number \div 65536) % 16) * 16>>, FALSE)
        x3 == Configure(x2, number, PeriodOf(kind), SEARCH_TIMEOUT, CHANNEL_FREQUENCY)
    IN  IF number = -1 THEN [x EXCEPT !.threw = TRUE]
        ELSE Constructed(Command(x3, number, OPEN_CHANNEL, <<>>, FALSE),
                         kind, number, device_number)

(* AntChannel::~AntChannel: every exception is discarded *)
Discarded(x, before) ==
    LET wrote == \E i \in 1..Len(x.w) : i > before /\ At(x.w[i], 2) = UNASSIGN_CHANNEL
    IN  [x EXCEPT !.threw = FALSE, !.c.unassigns = IF wrote THEN @ + 1 ELSE @]

(* Mutant: the channel is closed and unassigned whatever its state *)
DestroyChannelUnguarded(x, unwinding) ==
    Discarded(Command(Command(x, x.c.m_ChannelNumber, CLOSE_CHANNEL, <<>>, unwinding),
                      x.c.m_ChannelNumber, UNASSIGN_CHANNEL, <<>>, unwinding),
              Len(x.w))

DestroyChannel(x, unwinding) ==
    LET number == x.c.m_ChannelNumber
        x1 == Command(x, number, CLOSE_CHANNEL, <<>>, unwinding)
    IN  IF x.c.m_State # "CH_CLOSED"
        THEN Discarded(Command(x1, number, UNASSIGN_CHANNEL, <<>>, unwinding), Len(x.w))
        ELSE x

-----------------------------------------------------------------------------
(* Acknowledged data *)

(* Mutant: the item is written at once *)
SendAcknowledgedDataAtOnce(x, tag, message) ==
    WriteMessage([x EXCEPT !.c.m_AckDataQueue =
                               Append(@, [tag |-> tag, data |-> message, sent |-> 1])],
                 MakeMessage(ACKNOWLEDGE_DATA, <<x.c.m_ChannelNumber>> \o message))

(* AntChannel::SendAcknowledgedData: m_AckDataQueue.push(AckDataItem(tag, message)) *)
SendAcknowledgedData(x, tag, message) ==
    [x EXCEPT !.c.m_AckDataQueue = Append(@, [tag |-> tag, data |-> message, sent |-> 0])]

(* AntChannel::RequestDataPage *)
RequestDataPage(x, page_id, transmit_count) ==
    SendAcknowledgedData(x, page_id,
        <<DP_DP_REQUEST, 255, 255, 255, 255, transmit_count % 256, page_id, 1>>)

(* Mutant: the front item is written whether or not one is outstanding *)
MaybeSendAckDataUnguarded(x) ==
    IF x.c.m_AckDataQueue # <<>>
    THEN LET item == Head(x.c.m_AckDataQueue)
             x1 == WriteMessage(x, MakeMessage(ACKNOWLEDGE_DATA,
                                               <<x.c.m_ChannelNumber>> \o item.data))
         IN  IF x1.threw THEN x1
             ELSE [x1 EXCEPT !.c.m_AckDataRequestOutstanding = TRUE,
                             !.c.m_AckDataQueue[1].sent = @ + 1,
                             !.c.first = IF @ = 0 THEN item.tag ELSE @]
    ELSE x

(* AntChannel::MaybeSendAckData *)
MaybeSendAckData(x) ==
    IF ~x.c.m_AckDataRequestOutstanding /\ x.c.m_AckDataQueue # <<>>
    THEN LET item == Head(x.c.m_AckDataQueue)
             x1 == WriteMessage(x, MakeMessage(ACKNOWLEDGE_DATA,
                                               <<x.c.m_ChannelNumber>> \o item.data))
         IN  IF x1.threw THEN x1
             ELSE [x1 EXCEPT !.c.m_AckDataRequestOutstanding = TRUE,
                             !.c.m_AckDataQueue[1].sent = @ + 1,
                             !.c.first = IF @ = 0 THEN item.tag ELSE @]
    ELSE x

-----------------------------------------------------------------------------
(* FitnessEquipmentControl *)

(* Constructor defaults: m_UserWeight 75.0 kg in 0.01 kg, m_BikeWeight 10.0  *)
(* kg in 0.05 kg, m_BikeWheelDiameter 0.668 m in cm and in mm.               *)
UserWeightRaw == 7500
BikeWeightRaw == 200
WheelSizeCm == 66
WheelSizeMm == 668

(* Mutant: the page is queued and m_UpdateUserConfig is left standing      *)
SendUserConfigPageKeepsFlag(x) ==
    SendAcknowledgedData(x, DP_USER_CONFIG,
        <<DP_USER_CONFIG, UserWeightRaw % 256, (UserWeightRaw \div 256) % 256, 255,
          0, (BikeWeightRaw \div 16) % 256, WheelSizeCm % 256, 0>>)

(* FitnessEquipmentControl::SendUserConfigPage: byte 4 is                   *)
(* (ws1 & 0x3) | ((bw | 0x03) << 4), stored in a uint8_t.                   *)
SendUserConfigPage(x) ==
    LET uw == UserWeightRaw
        bw == BikeWeightRaw
        ws == WheelSizeCm
        ws1 == WheelSizeMm - ws * 10
        bwOr3 == (bw - (bw % 4)) + 3
        msg == <<DP_USER_CONFIG, uw % 256, (uw \div 256) % 256, 255,
                 ((ws1 % 4) + (bwOr3 * 16)) % 256,
                 (bw \div 16) % 256, ws % 256, 0>>
        x1 == SendAcknowledgedData(x, DP_USER_CONFIG, msg)
    IN  [x1 EXCEPT !.c.m_UpdateUserConfig = FALSE]

(* FitnessEquipmentControl::SendTrackResistanceDataPage.  m_Slope is kept   *)
(* in units of 0.01 %, so raw_slope is m_Slope + 20000 as a uint16_t.       *)
(* raw_rr converts 0.004 * 5e5 = 2000.0 to uint8_t, which the language      *)
(* leaves undefined: x.rr is what the build produces.                       *)
SendTrackResistanceDataPage(x) ==
    LET raw_slope == (x.c.m_Slope + 20000) % 65536
    IN  SendAcknowledgedData(x, DP_TRACK_RESISTANCE,
            <<DP_TRACK_RESISTANCE, 255, 255, 255, 255,
              raw_slope % 256, (raw_slope \div 256) % 256, x.rr>>)

(* FitnessEquipmentControl::ProcessTrainerSpecificPage (page = data + 4)     *)
ProcessTrainerSpecificPage(x, data) ==
    LET trainer_status == (At(data, 4 + 6) \div 16) % 16
        m_UserConfigurationRequired == ((trainer_status \div 4) % 2) # 0
    IN  [x EXCEPT !.c.m_UpdateUserConfig = @ \/ m_UserConfigurationRequired]

(* FitnessEquipmentControl::ProcessCapabilitiesPage *)
ProcessCapabilitiesPage(x, data) ==
    [x EXCEPT !.c.m_CapabilitiesStatus = "CAPABILITIES_RECEIVED"]

(* Mutant: the user configuration goes out before the capabilities are     *)
(* asked for                                                                *)
FecOnMessageReceivedConfigFirst(x, data) ==
    LET x1 == IF At(data, 4) = DP_TRAINER_SPECIFIC THEN ProcessTrainerSpecificPage(x, data)
              ELSE IF At(data, 4) = DP_FE_CAPABILITIES THEN ProcessCapabilitiesPage(x, data)
              ELSE x
    IN  IF At(data, 2) # BROADCAST_DATA THEN x
        ELSE IF x1.c.DeviceNumber = 0 THEN x1
        ELSE IF x1.c.m_UpdateUserConfig THEN SendUserConfigPage(x1)
        ELSE IF x1.c.m_CapabilitiesStatus = "CAPABILITIES_UNKNOWN"
             THEN [RequestDataPage(x1, DP_FE_CAPABILITIES, 4)
                      EXCEPT !.c.m_CapabilitiesStatus = "CAPABILITIES_REQUESTED"]
        ELSE x1

(* FitnessEquipmentControl::OnMessageReceived *)
FecOnMessageReceived(x, data) ==
    LET x1 == IF At(data, 4) = DP_TRAINER_SPECIFIC THEN ProcessTrainerSpecificPage(x, data)
              ELSE IF At(data, 4) = DP_FE_CAPABILITIES THEN ProcessCapabilitiesPage(x, data)
              ELSE x
    IN  IF At(data, 2) # BROADCAST_DATA THEN x
        ELSE IF x1.c.DeviceNumber = 0 THEN x1
        ELSE IF x1.c.m_CapabilitiesStatus = "CAPABILITIES_UNKNOWN"
             THEN [RequestDataPage(x1, DP_FE_CAPABILITIES, 4)
                      EXCEPT !.c.m_CapabilitiesStatus = "CAPABILITIES_REQUESTED"]
        ELSE IF x1.c.m_UpdateUserConfig THEN SendUserConfigPage(x1)
        ELSE x1

(* Mutant: a failed track resistance page is not sent again *)
FecOnAcknowledgedDataReplyNoResend(x, tag, event) ==
    IF event # EVENT_TRANSFER_TX_COMPLETED
    THEN IF tag = DP_FE_CAPABILITIES
         THEN [x EXCEPT !.c.m_CapabilitiesStatus = "CAPABILITIES_UNKNOWN"]
         ELSE IF tag = DP_USER_CONFIG
         THEN [x EXCEPT !.c.m_UpdateUserConfig = TRUE]
         ELSE x
    ELSE x

(* FitnessEquipmentControl::OnAcknowledgedDataReply *)
FecOnAcknowledgedDataReply(x, tag, event) ==
    IF event # EVENT_TRANSFER_TX_COMPLETED
    THEN IF tag = DP_FE_CAPABILITIES
         THEN [x EXCEPT !.c.m_CapabilitiesStatus = "CAPABILITIES_UNKNOWN"]
         ELSE IF tag = DP_USER_CONFIG
         THEN [x EXCEPT !.c.m_UpdateUserConfig = TRUE]
         ELSE IF tag = DP_TRACK_RESISTANCE
         THEN SendTrackResistanceDataPage(x)
         ELSE x
    ELSE x

(* FitnessEquipmentControl::OnStateChanged *)
FecOnStateChanged(x, old_state, new_state) ==
    IF new_state # "CH_OPEN"
    THEN [x EXCEPT !.c.m_CapabilitiesStatus = "CAPABILITIES_UNKNOWN"]
    ELSE x

-----------------------------------------------------------------------------
(* The virtual hooks of AntChannel, dispatched on the derived class.  Each  *)
(* call is recorded in hooks.  HeartRateMonitor's hooks touch only its own  *)
(* readings, which are not part of the channel state.                       *)

OnMessageReceived(x, data) ==
    LET x1 == [x EXCEPT !.hooks = Append(@, [fn |-> "OnMessageReceived"])]
    IN  IF x.c.kind = "fec" THEN FecOnMessageReceived(x1, data) ELSE x1

OnStateChanged(x, old_state, new_state) ==
    LET x1 == [x EXCEPT !.hooks = Append(@, [fn |-> "OnStateChanged",
                                             old |-> old_state, new |-> new_state])]
    IN  IF x.c.kind = "fec" THEN FecOnStateChanged(x1, old_state, new_state) ELSE x1

OnAcknowledgedDataReply(x, item, event) ==
    LET x1 == [x EXCEPT !.hooks = Append(@, [fn |-> "OnAcknowledgedDataReply",
                                             tag |-> item.tag, event |-> event,
                                             sent |-> item.sent])]
    IN  IF x.c.kind = "fec" THEN FecOnAcknowledgedDataReply(x1, item.tag, event) ELSE x1

(* AntChannel::ChangeState *)
ChangeState(x, new_state) ==
    IF x.c.m_State # new_state
    THEN [OnStateChanged(x, x.c.m_State, new_state) EXCEPT !.c.m_State = new_state]
    ELSE x

-----------------------------------------------------------------------------
(* AntChannel message handling *)

(* The EVENT_CHANNEL_CLOSED branch of OnChannelResponseMessage on a channel *)
(* that is not CH_CLOSED                                                    *)
ChannelClosed(x) ==
    LET y1 == ChangeState(x, "CH_CLOSED")
        y2 == WriteMessage(y1, MakeMessage(UNASSIGN_CHANNEL, <<x.c.m_ChannelNumber>>))
        y3 == [y2 EXCEPT !.c.unassigns = @ + 1]
    IN  CheckChannelResponse(ReadInternalMessage(y3),
                             x.c.m_ChannelNumber, UNASSIGN_CHANNEL, 0, FALSE)

(* Mutant: the flag is cleared but the item stays at the front *)
AckReplyKeepsItem(x, event) ==
    OnAcknowledgedDataReply([x EXCEPT !.c.m_AckDataRequestOutstanding = FALSE],
                            Head(x.c.m_AckDataQueue), event)

(* Mutant: the hook is given the tag of the newest item *)
AckReplyNewestTag(x, event) ==
    OnAcknowledgedDataReply([x EXCEPT !.c.m_AckDataQueue = Tail(@),
                                      !.c.m_AckDataRequestOutstanding = FALSE],
                            x.c.m_AckDataQueue[Len(x.c.m_AckDataQueue)], event)

(* The last branch of OnChannelResponseMessage: the event is the status of  *)
(* the ACKNOWLEDGE_DATA transmission                                        *)
AckReply(x, event) ==
    OnAcknowledgedDataReply([x EXCEPT !.c.m_AckDataQueue = Tail(@),
                                      !.c.m_AckDataRequestOutstanding = FALSE],
                            Head(x.c.m_AckDataQueue), event)

(* Mutant: the status of the transmission is taken from the response to     *)
(* the ACKNOWLEDGE_DATA message, not from a channel event                   *)
OnChannelResponseMessageByMessageId(x, data) ==
    LET msg_id == At(data, 4)
        event == At(data, 5)
        x1 == IF event = EVENT_RX_FAIL
              THEN [x EXCEPT !.c.m_MessagesFailed = Inc(@)]
              ELSE x
    IN  IF msg_id = 1
        THEN IF event = EVENT_RX_SEARCH_TIMEOUT THEN x1
             ELSE IF event = EVENT_CHANNEL_CLOSED
                  THEN (IF x1.c.m_State # "CH_CLOSED" THEN ChannelClosed(x1) ELSE x1)
             ELSE IF event = EVENT_RX_FAIL_GO_TO_SEARCH
                  THEN ChangeState([x1 EXCEPT !.c.DeviceNumber = 0], "CH_SEARCHING")
             ELSE x1
        ELSE IF msg_id = ACKNOWLEDGE_DATA /\ x.c.m_AckDataRequestOutstanding
             THEN AckReply(x, event)
             ELSE x

(* AntChannel::OnChannelResponseMessage.  EVENT_RX_FAIL is counted by an if *)
(* of its own, ahead of the if / else-if chain over the event.              *)
OnChannelResponseMessage(x, data) ==
    LET msg_id == At(data, 4)
        event == At(data, 5)
        x1 == IF event = EVENT_RX_FAIL
              THEN [x EXCEPT !.c.m_MessagesFailed = Inc(@)]
              ELSE x
    IN  IF msg_id = 1
        THEN IF event = EVENT_RX_SEARCH_TIMEOUT THEN x1
             ELSE IF event = EVENT_CHANNEL_CLOSED
                  THEN (IF x1.c.m_State # "CH_CLOSED" THEN ChannelClosed(x1) ELSE x1)
             ELSE IF event = EVENT_RX_FAIL_GO_TO_SEARCH
                  THEN ChangeState([x1 EXCEPT !.c.DeviceNumber = 0], "CH_SEARCHING")
             ELSE IF event = RESPONSE_NO_ERROR THEN x1
             ELSE IF x1.c.m_AckDataRequestOutstanding THEN AckReply(x1, event)
             ELSE x1
        ELSE x

(* The device number as AntChannel::OnChannelIdMessage decodes it: the      *)
(* three parts are or-ed as int and stored in a uint16_t.                   *)
DecodeDeviceNumber(data) ==
    (At(data, 4) + (At(data, 5) * 256) + (((At(data, 7) \div 16) % 16) * 65536)) % 65536

(* Mutant: the channel opens on any channel id, also one with device       *)
(* number 0                                                                 *)
OnChannelIdMessageAlwaysOpens(x, data) ==
    LET device_number == DecodeDeviceNumber(data)
        device_type == At(data, 6)
        x1 == IF x.c.DeviceType = 0 THEN [x EXCEPT !.c.DeviceType = device_type]
              ELSE IF x.c.DeviceType # device_type THEN [x EXCEPT !.threw = TRUE]
              ELSE x
        x2 == IF x1.c.DeviceNumber = 0
              THEN [x1 EXCEPT !.c.DeviceNumber = device_number,
                              !.c.learned = IF device_number # 0 THEN device_number ELSE @,
                              !.c.heard = IF device_number # 0
                                          THEN <<At(data, 4), At(data, 5), At(data, 7)>>
                                          ELSE @,
                              !.c.first = IF device_number # 0 THEN 0 ELSE @]
              ELSE IF x1.c.DeviceNumber # device_number THEN [x1 EXCEPT !.threw = TRUE]
              ELSE x1
        x3 == ChangeState(x2, "CH_OPEN")
    IN  IF At(data, 3) # x.c.m_ChannelNumber THEN [x EXCEPT !.threw = TRUE]
        ELSE IF x1.threw THEN x1
        ELSE IF x2.threw THEN x2
        ELSE [x3 EXCEPT !.c.m_IdReqestOutstanding = FALSE]

(* AntChannel::OnChannelIdMessage *)
OnChannelIdMessage(x, data) ==
    LET device_number == DecodeDeviceNumber(data)
        device_type == At(data, 6)
        x1 == IF x.c.DeviceType = 0 THEN [x EXCEPT !.c.DeviceType = device_type]
              ELSE IF x.c.DeviceType # device_type THEN [x EXCEPT !.threw = TRUE]
              ELSE x
        x2 == IF x1.c.DeviceNumber = 0
              THEN [x1 EXCEPT !.c.DeviceNumber = device_number,
                              !.c.learned = IF device_number # 0 THEN device_number ELSE @,
                              !.c.heard = IF device_number # 0
                                          THEN <<At(data, 4), At(data, 5), At(data, 7)>>
                                          ELSE @,
                              !.c.first = IF device_number # 0 THEN 0 ELSE @]
              ELSE IF x1.c.DeviceNumber # device_number THEN [x1 EXCEPT !.threw = TRUE]
              ELSE x1
        x3 == IF x2.c.DeviceNumber # 0 THEN ChangeState(x2, "CH_OPEN") ELSE x2
    IN  IF At(data, 3) # x.c.m_ChannelNumber THEN [x EXCEPT !.threw = TRUE]
        ELSE IF x1.threw THEN x1
        ELSE IF x2.threw THEN x2
        ELSE [x3 EXCEPT !.c.m_IdReqestOutstanding = FALSE]

(* Mutant: the channel id is requested on every broadcast until the device *)
(* number is known                                                          *)
OnBroadcastDataAsksAgain(x, data) ==
    LET x1 == IF x.c.DeviceNumber = 0
              THEN LET y == WriteMessage(x, MakeMessage(REQUEST_MESSAGE,
                                             <<x.c.m_ChannelNumber, SET_CHANNEL_ID>>))
                   IN  IF y.threw THEN y
                       ELSE [y EXCEPT !.c.m_IdReqestOutstanding = TRUE]
              ELSE x
        x2 == IF x1.threw THEN x1 ELSE MaybeSendAckData(x1)
        x3 == IF x2.threw THEN x2 ELSE OnMessageReceived(x2, data)
    IN  IF x3.threw THEN x3
        ELSE [x3 EXCEPT !.c.m_MessagesReceived = Inc(@)]

(* The BROADCAST_DATA case of AntChannel::HandleMessage *)
OnBroadcastData(x, data) ==
    LET x1 == IF x.c.DeviceNumber = 0 /\ ~x.c.m_IdReqestOutstanding
              THEN LET y == WriteMessage(x, MakeMessage(REQUEST_MESSAGE,
                                             <<x.c.m_ChannelNumber, SET_CHANNEL_ID>>))
                   IN  IF y.threw THEN y
                       ELSE [y EXCEPT !.c.m_IdReqestOutstanding = TRUE]
              ELSE x
        x2 == IF x1.threw THEN x1 ELSE MaybeSendAckData(x1)
        x3 == IF x2.threw THEN x2 ELSE OnMessageReceived(x2, data)
    IN  IF x3.threw THEN x3
        ELSE [x3 EXCEPT !.c.m_MessagesReceived = Inc(@)]

(* Mutant: no test for CH_CLOSED *)
HandleMessageWhileClosed(x, data) ==
    IF At(data, 2) = CHANNEL_RESPONSE THEN OnChannelResponseMessage(x, data)
    ELSE IF At(data, 2) = BROADCAST_DATA THEN OnBroadcastData(x, data)
    ELSE IF At(data, 2) = RESPONSE_CHANNEL_ID THEN OnChannelIdMessage(x, data)
    ELSE OnMessageReceived(x, data)

(* AntChannel::HandleMessage *)
HandleMessage(x, data) ==
    IF x.c.m_State = "CH_CLOSED" THEN x
    ELSE IF At(data, 2) = CHANNEL_RESPONSE THEN OnChannelResponseMessage(x, data)
    ELSE IF At(data, 2) = BROADCAST_DATA THEN OnBroadcastData(x, data)
    ELSE IF At(data, 2) = RESPONSE_CHANNEL_ID THEN OnChannelIdMessage(x, data)
    ELSE OnMessageReceived(x, data)

-----------------------------------------------------------------------------
(* What the dongle can send.  The heart rate monitor has channel number 0   *)
(* and the trainer channel number 1 throughout: NextChannelId hands a       *)
(* replaced channel the number its predecessor had.                         *)

ChannelNumbers == {0, 1}

Broadcast(channel, page) == MakeMessage(BROADCAST_DATA, <<channel>> \o page)
ChannelEvent(channel, event) == MakeMessage(CHANNEL_RESPONSE, <<channel, 1, event>>)
ChannelReply(channel, cmd, status) == MakeMessage(CHANNEL_RESPONSE, <<channel, cmd, status>>)
ChannelIdResponse(channel, id) ==
    MakeMessage(RESPONSE_CHANNEL_ID, <<channel, id[1], id[2], id[3], id[4]>>)
BurstData(channel) == MakeMessage(BURST_TRANSFER_DATA, <<channel, 1, 2, 3, 4, 5, 6, 7, 8>>)

(* HRM page: measurement time 4, beat count 16, heart rate 72 *)
HrmPage == <<0, 0, 0, 0, 4, 0, 16, 72>>

(* FE-C pages: trainer specific without and with the user configuration    *)
(* required bit, capabilities                                              *)
TrainerPage == <<DP_TRAINER_SPECIFIC, 0, 80, 0, 0, 200, 0, 32>>
TrainerPageConfigRequired == <<DP_TRAINER_SPECIFIC, 0, 80, 0, 0, 200, 64, 32>>
CapabilitiesPage == <<DP_FE_CAPABILITIES, 255, 255, 255, 255, 232, 3, 7>>

(* Channel ids <<dev_no_lo, dev_no_hi, dev_type, trans_type>> of the        *)
(* trainer channel: device numbers 1, 0 and 65536, and a heart rate        *)
(* monitor's id.                                                            *)
PairingId == <<1, 0, FEC_DEVICE_TYPE, 1>>
ZeroId == <<0, 0, FEC_DEVICE_TYPE, 1>>
ExtendedId == <<0, 0, FEC_DEVICE_TYPE, 17>>
ForeignId == <<1, 0, HRM_DEVICE_TYPE, 1>>

(* The frames of the channel life cycle: searching, pairing, losing the     *)
(* sensor, closing.  The last one is for a channel number nobody has.       *)
AsyncFrames ==
    {ChannelEvent(0, EVENT_CHANNEL_CLOSED),
     Broadcast(1, TrainerPage),
     BurstData(1),
     ChannelEvent(1, EVENT_RX_SEARCH_TIMEOUT),
     ChannelEvent(1, EVENT_TRANSFER_TX_COMPLETED),
     ChannelEvent(1, EVENT_CHANNEL_CLOSED),
     ChannelEvent(1, EVENT_RX_FAIL_GO_TO_SEARCH),
     Broadcast(2, HrmPage)}
    \cup {ChannelIdResponse(1, id) : id \in {PairingId, ZeroId, ExtendedId, ForeignId}}

(* The frames of acknowledged data traffic on the trainer channel *)
AckFrames ==
    {ChannelIdResponse(1, PairingId),
     ChannelEvent(1, RESPONSE_NO_ERROR),
     ChannelEvent(1, EVENT_RX_FAIL),
     ChannelEvent(1, EVENT_TRANSFER_TX_COMPLETED),
     ChannelEvent(1, EVENT_TRANSFER_TX_FAILED),
     ChannelReply(1, ACKNOWLEDGE_DATA, CHANNEL_IN_WRONG_STATE)}
    \cup {Broadcast(1, pg) : pg \in {TrainerPage, TrainerPageConfigRequired, CapabilitiesPage}}

ConstructorCommands ==
    <<ASSIGN_CHANNEL, SET_CHANNEL_ID, SET_CHANNEL_PERIOD, SET_CHANNEL_SEARCH_TIMEOUT,
      SET_CHANNEL_RF_FREQ, OPEN_CHANNEL>>

DestructorCommands == <<CLOSE_CHANNEL, UNASSIGN_CHANNEL>>

(* Frames that may be waiting in the reader when a configuration command is *)
(* written: nothing, or a broadcast.                                        *)
PendingFrames == {<<>>, <<Broadcast(1, TrainerPage)>>}

(* The dongle's answers to a sequence of commands on one channel: all       *)
(* acknowledged, or the k-th refused or never answered.                     *)
RECURSIVE GoodReplies(_, _)
GoodReplies(channel, cmds) ==
    IF cmds = <<>> THEN <<>>
    ELSE <<ChannelReply(channel, Head(cmds), 0)>> \o GoodReplies(channel, Tail(cmds))

Replies(channel, cmds) ==
    {GoodReplies(channel, cmds)}
    \cup {GoodReplies(channel, SubSeq(cmds, 1, k - 1)) : k \in 1..Len(cmds)}
    \cup {GoodReplies(channel, SubSeq(cmds, 1, k - 1))
            \o <<ChannelReply(channel, cmds[k], CHANNEL_IN_WRONG_STATE)>> : k \in 1..Len(cmds)}

(* How a sequence of commands can go: inp is what the reader returns and   *)
(* wfail the write that fails (0: none).  Either the dongle answers as in  *)
(* Replies, or a frame was waiting in the reader, or a write fails.        *)
Attempts(channel, cmds) ==
    {[inp |-> r, wfail |-> 0] : r \in Replies(channel, cmds)}
    \cup {[inp |-> pre \o GoodReplies(channel, cmds), wfail |-> 0] : pre \in PendingFrames}
    \cup {[inp |-> GoodReplies(channel, cmds), wfail |-> k] : k \in 1..Len(cmds)}

(* For a constructor and for the UNASSIGN_CHANNEL of the                    *)
(* EVENT_CHANNEL_CLOSED handler, and the answers to a destructor, by        *)
(* channel number                                                           *)
ConstructorAttempts == [n \in ChannelNumbers |-> Attempts(n, ConstructorCommands)]

UnassignAttempts == [n \in ChannelNumbers |-> Attempts(n, <<UNASSIGN_CHANNEL>>)]

DestructorReplies ==
    [n \in ChannelNumbers |->
        [good |-> GoodReplies(n, DestructorCommands),
         refused |-> <<ChannelReply(n, CLOSE_CHANNEL, CHANNEL_IN_WRONG_STATE),
                       ChannelReply(n, UNASSIGN_CHANNEL, CHANNEL_IN_WRONG_STATE)>>,
         silent |-> <<>>]]

(* What static_cast<uint8_t>(2000.0) may yield *)
RawRollingResistance == {208, 255}

(* Slopes a client can set, in 0.01 % *)
Slopes == {250}

-----
(* The transport before its first use: AntMessageReader::AntMessageReader,  *)
(* AntMessageWriter::AntMessageWriter.  libusb_alloc_transfer returns a     *)
(* zeroed transfer, whose status reads LIBUSB_TRANSFER_COMPLETED.           *)
NoStream == [stream |-> <<>>, flood |-> FALSE, sent |-> <<>>,
             reading |-> FALSE, writing |-> FALSE, resubmitted |-> {},
             libusb |-> <<>>]

Returned == [pc |-> "idle", message |-> <<>>, raised |-> "none"]

TransportInit ==
    /\ m_Reader = [m_Buffer |-> <<>>, m_Mark |-> 0, m_Active |-> FALSE]
    /\ m_Writer = [m_Buffer |-> <<>>, m_Active |-> FALSE, status |-> "COMPLETED"]
    /\ call = Returned
    /\ results = <<>>

-----
(* A uint32_t, as its two 16-bit halves *)
Half == 65536

Zero32 == [hi |-> 0, lo |-> 0]

(* The readings as the constructors of the two profiles leave them at time *)
(* t: HeartRateMonitor's timestamp is 0, FitnessEquipmentControl's are t    *)
NewReadings(t) ==
    [m_InstantHeartRate |-> 0, m_InstantHeartRateTimestamp |-> Zero32,
     m_InstantPower |-> 0, m_InstantPowerTimestamp |-> t,
     m_InstantSpeed |-> 0, m_InstantSpeedTimestamp |-> t,
     m_InstantCadence |-> 0, m_InstantCadenceTimestamp |-> t,
     booted |-> t]

NoTelemetry == [hr |-> 0, cad |-> 0, pwr |-> 0, spd |-> 0]

TelemetryInit ==
    /\ now = Zero32
    /\ readings = NewReadings(Zero32)
    /\ out = NoTelemetry

(* The program *)

Order == <<"hrm", "fec">>

Alive(p) == chan[p].alive

UsedNumbers(cs, reg) == {cs[reg[i]].m_ChannelNumber : i \in 1..Len(reg)}

Remove(reg, p) == SelectSeq(reg, LAMBDA q : q # p)

(* What is kept of an object once it is destroyed *)
Remains(c) ==
    [kind |-> c.kind, m_State |-> c.m_State, unassigns |-> c.unassigns,
     learned |-> c.learned, heard |-> c.heard, DeviceNumber |-> c.DeviceNumber,
     DeviceType |-> c.DeviceType]

Bounded(x) ==
    /\ Len(x.d) <= MaxDelayed
    /\ x.c.alive => Len(x.c.m_AckDataQueue) <= MaxQueue

(* TelemetryServer's constructor succeeded: both channels are open on the   *)
(* dongle, searching, and registered.                                       *)
Init ==
    /\ chan = [p \in Profiles |->
                 NewChannel(p, IF p = "hrm" THEN 0 ELSE 1, 0)]
    /\ m_Channels = Order
    /\ m_DelayedMessages = <<>>
    /\ m_LastReadMessage = <<>>
    /\ phase = "run"
    /\ written = <<>>
    /\ calls = <<>>
    /\ step = [op |-> "Init", p |-> "none", frame |-> <<>>, threw |-> FALSE,
               destroyed |-> <<>>]
    /\ arrived = <<>>
    /\ usb = NoStream
    /\ TransportInit
    /\ TelemetryInit

(* An exception leaves TelemetryServer::Tick: ProcessChannels unwinds,      *)
(* ~TelemetryServer deletes m_Hrm and m_Fec, then the AntStick is destroyed. *)
(* cs are the profile objects at the throw, x the context at the throw,     *)
(* mode is how the dongle answers the destructors' commands.                *)
Gone(gone, x) == [x |-> x, gone |-> Append(gone, Remains(x.c))]

RECURSIVE UnwindFrom(_, _, _, _)
UnwindFrom(cs, u, mode, i) ==
    IF i > Len(Order) THEN u
    ELSE IF cs[Order[i]].alive
    THEN UnwindFrom(cs,
                    Gone(u.gone,
                         DestroyChannel(
                             [u.x EXCEPT !.c = cs[Order[i]],
                                         !.inp = DestructorReplies[cs[Order[i]].m_ChannelNumber][mode],
                                         !.threw = FALSE], TRUE)),
                    mode, i + 1)
    ELSE UnwindFrom(cs, u, mode, i + 1)

UnwindModes == {"good", "silent"}

Unwound(u, hooks, op, p, frame) ==
    /\ chan' = [q \in Profiles |-> NoChannel]
    /\ m_Channels' = <<>>
    /\ m_DelayedMessages' = <<>>
    /\ m_LastReadMessage' = <<>>
    /\ phase' = "down"
    /\ written' = u.x.w
    /\ calls' = hooks
    /\ step' = [op |-> op, p |-> p, frame |-> frame, threw |-> TRUE,
                destroyed |-> u.gone]

Unwind(cs, x, op, p, frame, gone) ==
    \E mode \in UnwindModes :
        \E u \in {UnwindFrom(cs, [x |-> x, gone |-> gone], mode, 1)} :
            Unwound(u, x.hooks, op, p, frame)

(* Mutant: the channel number of a burst is taken as it is *)
RouteUnmasked(message) ==
    LET channel == At(message, 3)
        hits == {i \in 1..Len(m_Channels) : chan[m_Channels[i]].m_ChannelNumber = channel}
    IN  IF hits = {} THEN "none"
        ELSE m_Channels[CHOOSE i \in hits : \A j \in hits : i <= j]

(* AntStick::MaybeProcessMessage: the first registered channel with the     *)
(* frame's channel number, or "none"                                        *)
Route(message) ==
    LET channel == IF At(message, 2) = BURST_TRANSFER_DATA
                   THEN At(message, 3) % 32 ELSE At(message, 3)
        hits == {i \in 1..Len(m_Channels) : chan[m_Channels[i]].m_ChannelNumber = channel}
    IN  IF hits = {} THEN "none"
        ELSE m_Channels[CHOOSE i \in hits : \A j \in hits : i <= j]

(* How the handling of this frame can go: the EVENT_CHANNEL_CLOSED handler  *)
(* writes UNASSIGN_CHANNEL and waits for the response; any other handler    *)
(* only writes, writes times.                                               *)
AttemptsFor(p, message, writes) ==
    IF /\ At(message, 2) = CHANNEL_RESPONSE /\ At(message, 4) = 1
       /\ At(message, 5) = EVENT_CHANNEL_CLOSED /\ chan[p].m_State # "CH_CLOSED"
    THEN UnassignAttempts[chan[p].m_ChannelNumber]
    ELSE {[inp |-> <<>>, wfail |-> k] : k \in 0..writes}

(* The builds' outcomes that matter when this frame is handled *)
OutcomesFor(p, message) ==
    IF /\ At(message, 2) = CHANNEL_RESPONSE
       /\ chan[p].m_AckDataQueue # <<>>
       /\ Head(chan[p].m_AckDataQueue).tag = DP_TRACK_RESISTANCE
    THEN RawRollingResistance
    ELSE {208}

(* The end of AntStick::Tick: x is the context HandleMessage returned *)
Delivered(x, p, message, op) ==
    IF x.threw
    THEN Unwind([chan EXCEPT ![p] = x.c], x, op, p, message, <<>>)
    ELSE /\ Bounded(x)
         /\ chan' = [chan EXCEPT ![p] = x.c]
         /\ m_DelayedMessages' = x.d
         /\ m_LastReadMessage' = x.resp
         /\ written' = x.w
         /\ calls' = x.hooks
         /\ step' = [op |-> op, p |-> p, frame |-> message,
                     threw |-> FALSE, destroyed |-> <<>>]
         /\ UNCHANGED <<m_Channels, phase>>

Writes(x) == Len(x.w)

(* The rest of AntStick::Tick once m_LastReadMessage holds a frame *)
Dispatch(message, d, op) ==
    LET p == Route(message)
    IN  IF p = "none"
        THEN /\ UNCHANGED <<chan, m_Channels, phase>>
             /\ m_DelayedMessages' = d
             /\ m_LastReadMessage' = message
             /\ written' = <<>>
             /\ calls' = <<>>
             /\ step' = [op |-> op, p |-> "none", frame |-> message, threw |-> FALSE,
                         destroyed |-> <<>>]
        ELSE \E rr \in OutcomesFor(p, message) :
             \E a \in AttemptsFor(p, message,
                        Writes(HandleMessage(Context(chan[p], message, <<>>, d, 0, rr),
                                             message))) :
             \E x \in {HandleMessage(Context(chan[p], message, a.inp, d, a.wfail, rr),
                                     message)} :
                Delivered(x, p, message, op)

(* AntStick::Tick, nothing delayed, the reader returns a frame *)
TickFrame ==
    /\ phase = "run"
    /\ m_DelayedMessages = <<>>
    /\ \E message \in AsyncFrames : Dispatch(message, <<>>, "Tick")
    /\ UNCHANGED <<history, transport, telemetry>>

(* The same, with a frame of acknowledged data traffic *)
TickAckFrame ==
    /\ phase = "run"
    /\ m_DelayedMessages = <<>>
    /\ \E message \in AckFrames : Dispatch(message, <<>>, "Tick")
    /\ UNCHANGED <<history, transport, telemetry>>

(* AntStick::Tick, nothing delayed, the reader returns nothing *)
TickIdle ==
    /\ phase = "run"
    /\ m_DelayedMessages = <<>>
    /\ m_LastReadMessage' = <<>>
    /\ written' = <<>>
    /\ calls' = <<>>
    /\ step' = [op |-> "Tick", p |-> "none", frame |-> <<>>, threw |-> FALSE,
                destroyed |-> <<>>]
    /\ UNCHANGED <<chan, m_Channels, m_DelayedMessages, phase, history, transport, telemetry>>

(* AntStick::Tick, nothing delayed, the reader raises (bad checksum, USB error) *)
TickReadFails ==
    /\ phase = "run"
    /\ m_DelayedMessages = <<>>
    /\ Unwind(chan, Context(NoChannel, <<>>, <<>>, <<>>, 0, 208), "Tick", "none", <<>>, <<>>)
    /\ UNCHANGED <<history, transport, telemetry>>

(* AntStick::Tick with a delayed frame *)
TickDelayed ==
    /\ phase = "run"
    /\ m_DelayedMessages # <<>>
    /\ Dispatch(Head(m_DelayedMessages), Tail(m_DelayedMessages), "Tick")
    /\ UNCHANGED <<history, transport, telemetry>>


(* One if-block of TelemetryServer::CheckSensorHealth for profile p: when   *)
(* the object is CH_CLOSED, read its device number, delete it, construct    *)
(* a new one with that device number.  wfail counts the constructor's       *)
(* writes.                                                                  *)
IsClosed(cs, p) == cs[p].alive /\ cs[p].m_State = "CH_CLOSED"

Installed(cs1, reg1, p, x1, gone) ==
    IF x1.threw
    THEN [cs |-> cs1, reg |-> reg1, x |-> x1, gone |-> gone]
    ELSE [cs |-> [cs1 EXCEPT ![p] = x1.c], reg |-> Append(reg1, p), x |-> x1, gone |-> gone]

Deleted(cs, reg, p, x0, a) ==
    Installed([cs EXCEPT ![p] = NoChannel], Remove(reg, p), p,
              AntChannel([x0 EXCEPT !.inp = a.inp,
                                    !.wfail = IF a.wfail = 0 THEN 0 ELSE Len(x0.w) + a.wfail],
                         cs[p].kind, cs[p].DeviceNumber,
                         UsedNumbers([cs EXCEPT ![p] = NoChannel], Remove(reg, p))),
              <<Remains(x0.c)>>)

Replaced(cs, reg, x, p, a) ==
    IF ~IsClosed(cs, p) THEN [cs |-> cs, reg |-> reg, x |-> x, gone |-> <<>>]
    ELSE Deleted(cs, reg, p, DestroyChannel([x EXCEPT !.c = cs[p]], FALSE), a)

HealthAttempts(cs, reg, p) ==
    IF IsClosed(cs, p)
    THEN ConstructorAttempts[NextChannelId(UsedNumbers(cs, Remove(reg, p)))]
    ELSE {[inp |-> <<>>, wfail |-> 0]}

(* CheckSensorHealth after its second if-block *)
HealthChecked(r, gone) ==
    IF r.x.threw
    THEN Unwind(r.cs, r.x, "CheckSensorHealth", "fec", <<>>, gone \o r.gone)
    ELSE /\ Len(r.x.d) <= MaxDelayed
         /\ chan' = r.cs
         /\ m_Channels' = r.reg
         /\ m_DelayedMessages' = r.x.d
         /\ m_LastReadMessage' = r.x.resp
         /\ written' = r.x.w
         /\ calls' = r.x.hooks
         /\ step' = [op |-> "CheckSensorHealth", p |-> "none",
                     frame |-> <<>>, threw |-> FALSE,
                     destroyed |-> gone \o r.gone]
         /\ phase' = phase

(* CheckSensorHealth after its first if-block *)
HrmChecked(r) ==
    IF r.x.threw
    THEN Unwind(r.cs, r.x, "CheckSensorHealth", "hrm", <<>>, r.gone)
    ELSE \E a \in HealthAttempts(r.cs, r.reg, "fec") :
         \E r2 \in {Replaced(r.cs, r.reg, r.x, "fec", a)} :
            HealthChecked(r2, r.gone)

(* TelemetryServer::CheckSensorHealth, when some profile is CH_CLOSED (it   *)
(* does nothing otherwise)                                                  *)
CheckSensorHealth ==
    /\ phase = "run"
    /\ \E p \in Profiles : IsClosed(chan, p)
    /\ \E a \in HealthAttempts(chan, m_Channels, "hrm") :
       \E r \in {Replaced(chan, m_Channels,
                          Context(NoChannel, m_LastReadMessage, <<>>,
                                  m_DelayedMessages, 0, 208),
                          "hrm", a)} :
          HrmChecked(r)
    /\ UNCHANGED <<history, transport, telemetry>>

SlopeSet(x) ==
    /\ Bounded(x)
    /\ chan' = [chan EXCEPT !["fec"] = x.c]
    /\ written' = x.w
    /\ calls' = x.hooks
    /\ step' = [op |-> "SetSlope", p |-> "fec", frame |-> <<>>, threw |-> FALSE,
                destroyed |-> <<>>]
    /\ UNCHANGED <<m_Channels, m_DelayedMessages, m_LastReadMessage, phase>>

(* TelemetryServer::ProcessMessage: SET-SLOPE -> FitnessEquipmentControl::SetSlope *)
SetSlope ==
    /\ phase = "run"
    /\ Alive("fec")
    /\ \E slope \in Slopes, rr \in RawRollingResistance :
       \E x \in {SendTrackResistanceDataPage(
                     Context([chan["fec"] EXCEPT !.m_Slope = slope],
                             m_LastReadMessage, <<>>, m_DelayedMessages, 0, rr))} :
          SlopeSet(x)
    /\ UNCHANGED <<history, transport, telemetry>>

(* ProcessAntSticks loops: a new AntStick, SetNetworkKey and a new          *)
(* TelemetryServer, all succeeding                                          *)
Restart ==
    /\ phase = "down"
    /\ chan' = [p \in Profiles |-> NewChannel(p, IF p = "hrm" THEN 0 ELSE 1, 0)]
    /\ m_Channels' = Order
    /\ m_DelayedMessages' = <<>>
    /\ m_LastReadMessage' = <<>>
    /\ phase' = "run"
    /\ written' = <<>>
    /\ calls' = <<>>
    /\ step' = [op |-> "Restart", p |-> "none", frame |-> <<>>, threw |-> FALSE,
                destroyed |-> <<>>]
    /\ UNCHANGED <<history, transport, telemetry>>

(* AntStick::Tick, nothing delayed, the reader returns a broadcast of the    *)
(* trainer                                                                  *)
TickBroadcast ==
    /\ phase = "run"
    /\ m_DelayedMessages = <<>>
    /\ \E pg \in {TrainerPage, CapabilitiesPage} : Dispatch(Broadcast(1, pg), <<>>, "Tick")
    /\ UNCHANGED <<history, transport, telemetry>>

(* ... the channel id the trainer channel asked for with REQUEST_MESSAGE *)
TickIdResponse ==
    /\ phase = "run"
    /\ m_DelayedMessages = <<>>
    /\ chan["fec"].alive
    /\ chan["fec"].m_IdReqestOutstanding
    /\ Dispatch(ChannelIdResponse(1, PairingId), <<>>, "Tick")
    /\ UNCHANGED <<history, transport, telemetry>>

(* ... the trainer is out of reach, or the search for it timed out *)
TickLoss ==
    /\ phase = "run"
    /\ m_DelayedMessages = <<>>
    /\ \E e \in {EVENT_RX_FAIL_GO_TO_SEARCH, EVENT_CHANNEL_CLOSED} :
           Dispatch(ChannelEvent(1, e), <<>>, "Tick")
    /\ UNCHANGED <<history, transport, telemetry>>

(* The channel life cycle.  AntStick::Tick and                               *)
(* TelemetryServer::CheckSensorHealth are steps of their own:               *)
(* TelemetryServer::Tick runs one after the other, and a client of AntStick *)
(* may call Tick alone, which is how a frame reaches a CH_CLOSED object.    *)
(* A CheckSensorHealth that finds no closed channel changes nothing.  Every *)
(* run of the server loop is a behaviour of Spec.                           *)
Next ==
    \/ TickFrame
    \/ TickIdle
    \/ TickReadFails
    \/ TickDelayed
    \/ CheckSensorHealth
    \/ Restart

Spec == Init /\ [][Next]_vars

(* Acknowledged data traffic on the trainer channel, with no channel        *)
(* closed: CheckSensorHealth changes nothing.                               *)
AckNext ==
    \/ TickAckFrame
    \/ TickIdle
    \/ SetSlope
    \/ Restart

AckSpec == Init /\ [][AckNext]_vars

(* A trainer that keeps broadcasting and answers the channel's requests,    *)
(* under a server loop that keeps running: ProcessChannels calls            *)
(* TelemetryServer::Tick in a loop, which takes what the reader has and     *)
(* then runs CheckSensorHealth, and ProcessAntSticks starts over after an   *)
(* exception.                                                               *)
LiveNext ==
    \/ TickBroadcast
    \/ TickIdResponse
    \/ TickLoss
    \/ TickDelayed
    \/ CheckSensorHealth
    \/ Restart

(* The conditions under which the steps are taken *)
Reading == phase = "run" /\ m_DelayedMessages = <<>>

IdRequested == Reading /\ chan["fec"].alive /\ chan["fec"].m_IdReqestOutstanding

Delayed == phase = "run" /\ m_DelayedMessages # <<>>

SomeClosed == phase = "run" /\ \E p \in Profiles : IsClosed(chan, p)

(* Weak fairness of each step but TickLoss.  For the steps that handle a    *)
(* frame or construct a channel the condition of the step is written out:   *)
(* []<>~C \/ []<><<A>>_vars is WF_vars(A) when C is ENABLED <<A>>_vars, and *)
(* is no weaker than it when C is only implied by it, as each C here is by  *)
(* the step's first conjuncts.                                              *)
LiveSpec ==
    /\ Init
    /\ [][LiveNext]_vars
    /\ WF_vars(Restart)
    /\ ([]<>~Reading \/ []<><<TickBroadcast>>_vars)
    /\ ([]<>~IdRequested \/ []<><<TickIdResponse>>_vars)
    /\ ([]<>~Delayed \/ []<><<TickDelayed>>_vars)
    /\ ([]<>~SomeClosed \/ []<><<CheckSensorHealth>>_vars)

-----------------------------------------------------------------------------
(* Properties.  A primed variable is the state after a step, an unprimed    *)
(* one the state before it.                                                 *)

IsAck(b) == At(b, 2) = ACKNOWLEDGE_DATA

AckWrites(w) == SelectSeq(w, IsAck)

IsReply(r) == r.fn = "OnAcknowledgedDataReply"

ReplyCalls(h) == SelectSeq(h, IsReply)

IsEvent(frame) ==
    /\ frame # <<>>
    /\ At(frame, 2) = CHANNEL_RESPONSE
    /\ At(frame, 4) = 1

IsBroadcast(frame) == frame # <<>> /\ At(frame, 2) = BROADCAST_DATA

IsPrefix(s, t) == Len(s) <= Len(t) /\ SubSeq(t, 1, Len(s)) = s

InFlight(c) == {i \in 1..Len(c.m_AckDataQueue) : c.m_AckDataQueue[i].sent > 0}

InFlightAtMostOne ==
    \A p \in Profiles : chan[p].alive => Cardinality(InFlight(chan[p])) <= 1

NoWriteWhileInFlight ==
    \A p \in Profiles :
        (chan[p].alive /\ chan[p].m_AckDataRequestOutstanding) =>
            /\ \A i \in 1..Len(written') :
                   ~(IsAck(written'[i]) /\ At(written'[i], 3) = chan[p].m_ChannelNumber)
            /\ (chan'[p].alive /\ chan'[p].m_AckDataRequestOutstanding) =>
                   IsPrefix(chan[p].m_AckDataQueue, chan'[p].m_AckDataQueue)

(* C1: while m_AckDataRequestOutstanding is set no step writes an          *)
(* ACKNOWLEDGE_DATA frame for that channel, and a step that leaves it set   *)
(* can only append to m_AckDataQueue, so at most one item of a queue is in  *)
(* flight at any time.                                                      *)
C1_AckInFlightUniqueness == []InFlightAtMostOne /\ [][NoWriteWhileInFlight]_vars

(* An enqueue (SetSlope) made while the front item is in flight: the item   *)
(* is appended and nothing is written.                                      *)
C1_Witness ==
    /\ step.op = "SetSlope"
    /\ chan["fec"].alive
    /\ chan["fec"].m_AckDataRequestOutstanding
    /\ Len(chan["fec"].m_AckDataQueue) = 2
    /\ chan["fec"].m_AckDataQueue[1].sent = 1
    /\ chan["fec"].m_AckDataQueue[2].tag = DP_TRACK_RESISTANCE
    /\ chan["fec"].m_AckDataQueue[2].sent = 0
    /\ written = <<>>

AckOnlyOnBroadcast ==
    /\ Len(AckWrites(written')) <= 1
    /\ AckWrites(written') # <<>> =>
           /\ step'.op = "Tick"
           /\ IsBroadcast(step'.frame)
           /\ step'.p \in Profiles
           /\ chan[step'.p].alive
           /\ chan[step'.p].m_AckDataQueue # <<>>
           /\ AckWrites(written')[1] =
                  MakeMessage(ACKNOWLEDGE_DATA,
                              <<chan[step'.p].m_ChannelNumber>>
                                  \o Head(chan[step'.p].m_AckDataQueue).data)
    /\ step'.op = "SetSlope" => written' = <<>>

(* C2: a step writes an ACKNOWLEDGE_DATA frame only when it handles a       *)
(* BROADCAST_DATA frame, at most one, and the frame carries the payload     *)
(* that was at the front of the queue before the step; enqueuing            *)
(* (SetSlope, and the pages the profile requests while it handles a         *)
(* broadcast) writes nothing of its own.                                    *)
C2_AckOnlyOnBroadcast == [][AckOnlyOnBroadcast]_vars

(* A broadcast that sent the front item and on which the profile enqueued   *)
(* the user configuration page behind it.                                   *)
C2_Witness ==
    /\ step.op = "Tick"
    /\ IsBroadcast(step.frame)
    /\ step.p = "fec"
    /\ ~step.threw
    /\ Len(AckWrites(written)) = 1
    /\ Len(chan["fec"].m_AckDataQueue) = 2
    /\ chan["fec"].m_AckDataQueue[1].sent = 1
    /\ chan["fec"].m_AckDataQueue[2].tag = DP_USER_CONFIG

ReplyTaken(p) ==
    \/ At(step'.frame, 5) \in {EVENT_TRANSFER_TX_COMPLETED, EVENT_TRANSFER_TX_FAILED}
    \/ ReplyCalls(calls') # <<>>
    \/ /\ chan'[p].alive
       /\ \/ ~chan'[p].m_AckDataRequestOutstanding
          \/ ~IsPrefix(chan[p].m_AckDataQueue, chan'[p].m_AckDataQueue)

ReplyEffect(p) ==
    /\ Len(ReplyCalls(calls')) = 1
    /\ ReplyCalls(calls')[1].tag = Head(chan[p].m_AckDataQueue).tag
    /\ ReplyCalls(calls')[1].event = At(step'.frame, 5)
    /\ Head(chan[p].m_AckDataQueue).sent = 1
    /\ \A i \in 2..Len(chan[p].m_AckDataQueue) : chan[p].m_AckDataQueue[i].sent = 0
    /\ chan'[p].alive
    /\ ~chan'[p].m_AckDataRequestOutstanding
    /\ IsPrefix(Tail(chan[p].m_AckDataQueue), chan'[p].m_AckDataQueue)

AckReplyInOrder ==
    /\ \A p \in Profiles :
           ( /\ chan[p].alive
             /\ chan[p].m_State # "CH_CLOSED"
             /\ chan[p].m_AckDataRequestOutstanding
             /\ step'.op = "Tick"
             /\ step'.p = p
             /\ IsEvent(step'.frame)
             /\ ReplyTaken(p) ) => ReplyEffect(p)
    /\ ReplyCalls(calls') # <<>> =>
           /\ step'.op = "Tick"
           /\ IsEvent(step'.frame)
           /\ step'.p \in Profiles
           /\ chan[step'.p].alive
           /\ chan[step'.p].m_AckDataRequestOutstanding

(* C3: when a channel event is taken as the reply to the transmission in    *)
(* flight, the front item is popped, the flag is cleared and                *)
(* OnAcknowledgedDataReply is called exactly once, with the event code and  *)
(* the tag of the front item, which is the one item that was written; the   *)
(* hook is called in no other step.  Items leave the queue at the front     *)
(* only, so tags are reported in the order of enqueuing, each at most once. *)
C3_AckReplyInOrder == [][AckReplyInOrder]_vars

(* A completed transmission was reported while a second item waits *)
C3_Witness ==
    /\ step.op = "Tick"
    /\ IsEvent(step.frame)
    /\ At(step.frame, 5) = EVENT_TRANSFER_TX_COMPLETED
    /\ Len(ReplyCalls(calls)) = 1
    /\ ReplyCalls(calls)[1].sent = 1
    /\ chan["fec"].alive
    /\ ~chan["fec"].m_AckDataRequestOutstanding
    /\ chan["fec"].m_AckDataQueue # <<>>

(* C4: no item is written twice, and the only item that has been written    *)
(* is the front one while its reply is awaited: once the reply is in, the   *)
(* item is gone; a failed item comes back only as a new item the profile    *)
(* enqueues.                                                                *)
C4_NoRetry ==
    \A p \in Profiles :
        chan[p].alive =>
            \A i \in 1..Len(chan[p].m_AckDataQueue) :
                /\ chan[p].m_AckDataQueue[i].sent <= 1
                /\ chan[p].m_AckDataQueue[i].sent = 1 =>
                       (i = 1 /\ chan[p].m_AckDataRequestOutstanding)

(* The user configuration page failed: it is gone from the queue, nothing   *)
(* was written, and the profile has re-armed the page.                      *)
C4_Witness ==
    /\ step.op = "Tick"
    /\ IsEvent(step.frame)
    /\ At(step.frame, 5) = EVENT_TRANSFER_TX_FAILED
    /\ Len(ReplyCalls(calls)) = 1
    /\ ReplyCalls(calls)[1].tag = DP_USER_CONFIG
    /\ written = <<>>
    /\ chan["fec"].alive
    /\ chan["fec"].m_UpdateUserConfig
    /\ \A i \in 1..Len(chan["fec"].m_AckDataQueue) : chan["fec"].m_AckDataQueue[i].sent = 0

IsChannelId(frame) == frame # <<>> /\ At(frame, 2) = RESPONSE_CHANNEL_ID

EventIs(frame, event) == IsEvent(frame) /\ At(frame, 5) = event

(* The object that is chan[p] before the step is still chan[p] after it:    *)
(* CheckSensorHealth deletes the CH_CLOSED objects, an exception all.       *)
SameObject(p) ==
    /\ chan[p].alive
    /\ chan'[p].alive
    /\ ~(step'.op = "CheckSensorHealth" /\ chan[p].m_State = "CH_CLOSED")

StateIsKnown ==
    \A p \in Profiles :
        chan[p].alive =>
            /\ chan[p].m_State \in {"CH_SEARCHING", "CH_OPEN", "CH_CLOSED"}
            /\ chan[p].m_State = "CH_OPEN" => chan[p].DeviceNumber # 0

ConstructedSearching ==
    /\ step.op \in {"Init", "Restart"} =>
           \A p \in Profiles : chan[p].alive /\ chan[p].m_State = "CH_SEARCHING"
    /\ (step.op = "CheckSensorHealth" /\ ~step.threw) =>
           \A i \in 1..Len(step.destroyed) :
               /\ chan[step.destroyed[i].kind].alive
               /\ chan[step.destroyed[i].kind].m_State = "CH_SEARCHING"

StateChanges ==
    \A p \in Profiles :
        (SameObject(p) /\ chan'[p].m_State # chan[p].m_State) =>
            /\ step'.op = "Tick"
            /\ step'.p = p
            /\ \/ /\ chan[p].m_State = "CH_SEARCHING"
                  /\ chan'[p].m_State = "CH_OPEN"
                  /\ IsChannelId(step'.frame)
                  /\ chan'[p].DeviceNumber # 0
               \/ /\ chan[p].m_State = "CH_OPEN"
                  /\ chan'[p].m_State = "CH_SEARCHING"
                  /\ EventIs(step'.frame, EVENT_RX_FAIL_GO_TO_SEARCH)
                  /\ chan'[p].DeviceNumber = 0
               \/ /\ chan[p].m_State \in {"CH_SEARCHING", "CH_OPEN"}
                  /\ chan'[p].m_State = "CH_CLOSED"
                  /\ EventIs(step'.frame, EVENT_CHANNEL_CLOSED)

(* C5: m_State is one of CH_SEARCHING, CH_OPEN, CH_CLOSED; an object is     *)
(* CH_SEARCHING when its construction completes (at start, after a restart, *)
(* as a replacement); the state of an object changes only in a Tick that    *)
(* hands it a frame: CH_SEARCHING -> CH_OPEN on RESPONSE_CHANNEL_ID, with a *)
(* non-zero device number afterwards, CH_OPEN -> CH_SEARCHING on            *)
(* EVENT_RX_FAIL_GO_TO_SEARCH, the device number being 0 afterwards, and    *)
(* CH_SEARCHING or CH_OPEN -> CH_CLOSED on EVENT_CHANNEL_CLOSED.            *)
C5_StateMachine ==
    /\ []StateIsKnown
    /\ []ConstructedSearching
    /\ [][StateChanges]_vars

(* The paired trainer channel has gone back to searching *)
C5_Witness ==
    /\ step.op = "Tick"
    /\ step.p = "fec"
    /\ EventIs(step.frame, EVENT_RX_FAIL_GO_TO_SEARCH)
    /\ \E i \in 1..Len(calls) :
           /\ calls[i].fn = "OnStateChanged"
           /\ calls[i].old = "CH_OPEN"
           /\ calls[i].new = "CH_SEARCHING"
    /\ chan["fec"].alive
    /\ chan["fec"].m_State = "CH_SEARCHING"
    /\ chan["fec"].DeviceNumber = 0
    /\ chan["fec"].learned # 0

ClosedIsTerminal ==
    \A p \in Profiles :
        ( /\ chan[p].alive
          /\ chan[p].m_State = "CH_CLOSED"
          /\ step'.op = "Tick"
          /\ step'.p = p ) =>
            /\ ~step'.threw
            /\ chan'[p] = chan[p]
            /\ written' = <<>>
            /\ calls' = <<>>

(* C6: a Tick that hands a frame to an object that is CH_CLOSED leaves      *)
(* every field of the object as it was, writes nothing and calls no hook.   *)
C6_ClosedIsTerminal == [][ClosedIsTerminal]_vars

(* A broadcast was handed to the closed trainer channel, whose device       *)
(* number was 0: no REQUEST_MESSAGE was written for it.                     *)
C6_Witness ==
    /\ step.op = "Tick"
    /\ step.p = "fec"
    /\ IsBroadcast(step.frame)
    /\ chan["fec"].alive
    /\ chan["fec"].m_State = "CH_CLOSED"
    /\ chan["fec"].DeviceNumber = 0
    /\ ~chan["fec"].m_IdReqestOutstanding
    /\ written = <<>>

(* The device number a RESPONSE_CHANNEL_ID frame carries: 16 bits in the    *)
(* two device number bytes, 4 more in the high nibble of the transmission   *)
(* type byte.                                                               *)
WireDeviceNumber(frame) ==
    At(frame, 4) + At(frame, 5) * 256 + (At(frame, 7) \div 16) * 65536

Pairing ==
    \A p \in Profiles :
        ( /\ chan[p].alive
          /\ chan[p].m_State = "CH_SEARCHING"
          /\ chan[p].DeviceNumber = 0
          /\ step'.op = "Tick"
          /\ step'.p = p
          /\ IsChannelId(step'.frame)
          /\ chan[p].DeviceType \in {0, At(step'.frame, 6)} ) =>
            /\ chan'[p].alive
            /\ chan'[p].DeviceType = At(step'.frame, 6)
            /\ IF WireDeviceNumber(step'.frame) # 0
               THEN /\ chan'[p].DeviceNumber = WireDeviceNumber(step'.frame)
                    /\ ~chan'[p].m_IdReqestOutstanding
                    /\ chan'[p].m_State = "CH_OPEN"
               ELSE /\ chan'[p].DeviceNumber = 0
                    /\ chan'[p].m_State = "CH_SEARCHING"

(* C7: a searching channel with device number 0 that is handed a           *)
(* RESPONSE_CHANNEL_ID of its device type takes the device number of the    *)
(* frame, clears m_IdReqestOutstanding and becomes CH_OPEN when that number *)
(* is not 0, and stays CH_SEARCHING with device number 0 when it is 0.      *)
C7_Pairing == [][Pairing]_vars

PairingBelow65536 ==
    \/ IsChannelId(step'.frame) /\ WireDeviceNumber(step'.frame) >= 65536
    \/ Pairing

(* C7, for the device numbers that fit 16 bits *)
C7_PairingBelow65536 == [][PairingBelow65536]_vars

(* The trainer channel learned device number 1 *)
C7_Witness ==
    /\ step.op = "Tick"
    /\ step.p = "fec"
    /\ step.frame = ChannelIdResponse(1, PairingId)
    /\ \E i \in 1..Len(calls) :
           /\ calls[i].fn = "OnStateChanged"
           /\ calls[i].old = "CH_SEARCHING"
           /\ calls[i].new = "CH_OPEN"
    /\ chan["fec"].alive
    /\ chan["fec"].m_State = "CH_OPEN"
    /\ chan["fec"].DeviceNumber = 1

IsSetChannelId(b, device_number) ==
    /\ At(b, 2) = SET_CHANNEL_ID
    /\ At(b, 4) = device_number % 256
    /\ At(b, 5) = (device_number \div 256) % 256
    /\ At(b, 7) \div 16 = device_number \div 65536

(* C8: after CheckSensorHealth has replaced a CH_CLOSED object, the new     *)
(* object's device number, and the SET_CHANNEL_ID frame written for it, is  *)
(* the number the old object last learned from a RESPONSE_CHANNEL_ID.       *)
C8_ReplacementKeepsLearnedNumber ==
    (step.op = "CheckSensorHealth" /\ ~step.threw) =>
        \A i \in 1..Len(step.destroyed) :
            /\ chan[step.destroyed[i].kind].alive
            /\ chan[step.destroyed[i].kind].DeviceNumber = step.destroyed[i].learned
            /\ \E k \in 1..Len(written) :
                   IsSetChannelId(written[k], step.destroyed[i].learned)

(* C8, with the number the old object held when it was deleted *)
C8_ReplacementKeepsHeldNumber ==
    (step.op = "CheckSensorHealth" /\ ~step.threw) =>
        \A i \in 1..Len(step.destroyed) :
            /\ chan[step.destroyed[i].kind].alive
            /\ chan[step.destroyed[i].kind].DeviceNumber = step.destroyed[i].DeviceNumber
            /\ \E k \in 1..Len(written) :
                   IsSetChannelId(written[k], step.destroyed[i].DeviceNumber)

(* The trainer channel was closed while paired and replaced *)
C8_Witness ==
    /\ step.op = "CheckSensorHealth"
    /\ ~step.threw
    /\ \E i \in 1..Len(step.destroyed) :
           /\ step.destroyed[i].kind = "fec"
           /\ step.destroyed[i].learned = 1
           /\ step.destroyed[i].DeviceNumber = 1
    /\ chan["fec"].alive
    /\ chan["fec"].DeviceNumber = 1

(* A trainer channel constructed with a device number: SET_CHANNEL_ID told  *)
(* the dongle which sensor to look for, and the object searches.            *)
Repaired ==
    /\ chan["fec"].alive
    /\ chan["fec"].m_State = "CH_SEARCHING"
    /\ chan["fec"].DeviceNumber # 0

FreshlySearching ==
    /\ chan["fec"].alive
    /\ chan["fec"].m_State = "CH_SEARCHING"
    /\ chan["fec"].DeviceNumber = 0

(* The object has left CH_SEARCHING: it is CH_OPEN, so CollectTelemetry     *)
(* reports it, or it was closed or destroyed.                               *)
LeftSearching ==
    \/ ~chan["fec"].alive
    \/ chan["fec"].m_State # "CH_SEARCHING"

(* C9: a trainer channel that was constructed with a non-zero device        *)
(* number and keeps receiving broadcasts becomes CH_OPEN, unless it is      *)
(* closed or destroyed first.                                               *)
C9_RepairingLiveness == Repaired ~> LeftSearching

(* The same for a channel constructed with device number 0, which asks for  *)
(* the channel id on a broadcast                                            *)
FirstPairingLiveness == FreshlySearching ~> LeftSearching

(* The replacement of a paired trainer channel has received a broadcast *)
C9_Witness ==
    /\ Repaired
    /\ step.op = "Tick"
    /\ step.p = "fec"
    /\ IsBroadcast(step.frame)
    /\ ~chan["fec"].m_IdReqestOutstanding
    /\ written = <<>>

IsUnassign(b, number) == b = MakeMessage(UNASSIGN_CHANNEL, <<number>>)

Unassigns(w, number) == Len(SelectSeq(w, LAMBDA b : IsUnassign(b, number)))

UnassignedAtMostOnce ==
    /\ \A p \in Profiles :
           chan[p].alive =>
               /\ chan[p].unassigns <= 1
               /\ chan[p].unassigns = 1 => chan[p].m_State = "CH_CLOSED"
    /\ \A i \in 1..Len(step.destroyed) : step.destroyed[i].unassigns <= 1

ClosedEvent ==
    \A p \in Profiles :
        ( /\ chan[p].alive
          /\ chan[p].m_State # "CH_CLOSED"
          /\ step'.op = "Tick"
          /\ step'.p = p
          /\ EventIs(step'.frame, EVENT_CHANNEL_CLOSED) ) =>
            /\ written' # <<>>
            /\ IsUnassign(written'[1], chan[p].m_ChannelNumber)
            /\ Unassigns(written', chan[p].m_ChannelNumber) = 1
            /\ IF step'.threw
               THEN \E i \in 1..Len(step'.destroyed) :
                        /\ step'.destroyed[i].kind = p
                        /\ step'.destroyed[i].m_State = "CH_CLOSED"
                        /\ step'.destroyed[i].unassigns = 1
               ELSE /\ chan'[p].alive
                    /\ chan'[p].m_State = "CH_CLOSED"
                    /\ chan'[p].unassigns = 1
                    /\ Len(written') = 1
                    /\ m_LastReadMessage' =
                           ChannelReply(chan[p].m_ChannelNumber, UNASSIGN_CHANNEL,
                                        RESPONSE_NO_ERROR)

(* C10: a Tick that hands EVENT_CHANNEL_CLOSED to an object that is not     *)
(* CH_CLOSED writes UNASSIGN_CHANNEL for the object's channel number first  *)
(* and once; when the response is read and is good the object is CH_CLOSED  *)
(* and m_LastReadMessage is that response, otherwise the exception unwinds  *)
(* and the object is destroyed as CH_CLOSED.  No object, live or            *)
(* destroyed, has written UNASSIGN_CHANNEL more than once.                  *)
C10_UnassignOnClose == []UnassignedAtMostOnce /\ [][ClosedEvent]_vars

(* The trainer channel was closed by the event, which wrote                 *)
(* UNASSIGN_CHANNEL, and then deleted by CheckSensorHealth, which wrote the *)
(* replacement's commands and no UNASSIGN_CHANNEL for channel 1.            *)
C10_Witness ==
    /\ step.op = "CheckSensorHealth"
    /\ \E i \in 1..Len(step.destroyed) :
           /\ step.destroyed[i].kind = "fec"
           /\ step.destroyed[i].m_State = "CH_CLOSED"
           /\ step.destroyed[i].unassigns = 1
    /\ Unassigns(written, 1) = 0
    /\ written # <<>>

(* Every name in the registry is a live object; after an exception has      *)
(* unwound the server, every object is destroyed and the registry is empty. *)
DestroyedUnregistered ==
    /\ \A i \in 1..Len(m_Channels) : chan[m_Channels[i]].alive
    /\ step.threw =>
           /\ m_Channels = <<>>
           /\ \A p \in Profiles : ~chan[p].alive

(* C11: every destroyed object has written UNASSIGN_CHANNEL for its         *)
(* channel number, in the EVENT_CHANNEL_CLOSED handler or in its            *)
(* destructor, whatever the dongle answered; the destructor lets no         *)
(* exception out and takes the object off the registry.                     *)
C11_DestroyedUnassigned ==
    /\ DestroyedUnregistered
    /\ \A i \in 1..Len(step.destroyed) : step.destroyed[i].unassigns >= 1

(* C11 without the UNASSIGN_CHANNEL part *)
C11_DestroyedUnregistered == DestroyedUnregistered

(* An object that was not CH_CLOSED was destroyed while the dongle          *)
(* answered, and its destructor wrote UNASSIGN_CHANNEL.                     *)
C11_Witness ==
    /\ step.threw
    /\ \E i \in 1..Len(step.destroyed) :
           /\ step.destroyed[i].m_State # "CH_CLOSED"
           /\ step.destroyed[i].unassigns = 1
           /\ \E k \in 1..Len(written) :
                  IsUnassign(written[k], IF step.destroyed[i].kind = "hrm" THEN 0 ELSE 1)

-----------------------------------------------------------------------------
(* Construction.  CheckSensorHealth constructs a replacement for profile p  *)
(* from the objects cs, the registry reg and the context x, with the dongle *)
(* behaving as in attempt a.  Constructing(..) is what the constructor      *)
(* wrote, the responses it took from the reader and how it ended.           *)

Constructing(cs, reg, x, p, a) ==
    LET r == Replaced(cs, reg, x, p, a)
        taken == SubSeq(a.inp, 1, Len(a.inp) - Len(r.x.inp))
    IN  [number |-> NextChannelId(UsedNumbers(cs, Remove(reg, p))),
         wrote |-> SubSeq(r.x.w, Len(x.w) + 1, Len(r.x.w)),
         responses |-> SelectSeq(taken, LAMBDA m : ~SetAsideMessage(m)),
         threw |-> r.x.threw,
         registered |-> \E i \in 1..Len(r.reg) : r.reg[i] = p,
         object |-> r.cs[p],
         r |-> r]

(* The k-th response acknowledges the k-th command of the constructor *)
Acknowledged(k, t) ==
    /\ k <= Len(t.responses)
    /\ t.responses[k] = ChannelReply(t.number, ConstructorCommands[k], RESPONSE_NO_ERROR)

InConstructionOrder(t) ==
    /\ Len(t.wrote) <= Len(ConstructorCommands)
    /\ \A k \in 1..Len(t.wrote) :
           /\ At(t.wrote[k], 2) = ConstructorCommands[k]
           /\ At(t.wrote[k], 3) = t.number
           /\ IsGoodChecksum(t.wrote[k])
           /\ k > 1 => Acknowledged(k - 1, t)
    /\ IF \A k \in 1..Len(ConstructorCommands) : Acknowledged(k, t) /\ k <= Len(t.wrote)
       THEN /\ ~t.threw
            /\ t.registered
            /\ t.object.alive
            /\ t.object.m_ChannelNumber = t.number
            /\ t.object.m_State = "CH_SEARCHING"
       ELSE /\ t.threw
            /\ ~t.registered
            /\ ~t.object.alive

(* Every way a construction of p can go from cs, reg, x *)
ConstructionsOf(cs, reg, x, p) ==
    IF IsClosed(cs, p)
    THEN {Constructing(cs, reg, x, p, a) : a \in HealthAttempts(cs, reg, p)}
    ELSE {}

HealthContext == Context(NoChannel, m_LastReadMessage, <<>>, m_DelayedMessages, 0, 208)

(* C12: a constructor writes ASSIGN_CHANNEL, SET_CHANNEL_ID,                *)
(* SET_CHANNEL_PERIOD, SET_CHANNEL_SEARCH_TIMEOUT, SET_CHANNEL_RF_FREQ and  *)
(* OPEN_CHANNEL in this order, each one only after the response it read for *)
(* the previous one was the CHANNEL_RESPONSE of this channel and that       *)
(* command with status 0.  When a response is anything else, or a write     *)
(* fails, nothing more is written, the constructor raises and the object is *)
(* not registered; when all six are acknowledged the object is registered   *)
(* and CH_SEARCHING.  Checked for every construction CheckSensorHealth can  *)
(* start from the state: the heart rate monitor's, and the trainer's after  *)
(* the heart rate monitor's block has ended without an exception.           *)
C12_ConstructionOrder ==
    phase = "run" =>
        /\ \A t \in ConstructionsOf(chan, m_Channels, HealthContext, "hrm") :
               /\ InConstructionOrder(t)
               /\ ~t.threw =>
                      \A t2 \in ConstructionsOf(t.r.cs, t.r.reg, t.r.x, "fec") :
                          InConstructionOrder(t2)
        /\ ~IsClosed(chan, "hrm") =>
               \A t \in ConstructionsOf(chan, m_Channels, HealthContext, "fec") :
                   InConstructionOrder(t)

(* CheckSensorHealth has replaced one closed channel: the six commands were *)
(* written in order and the new object is registered.                       *)
C12_Witness ==
    /\ step.op = "CheckSensorHealth"
    /\ ~step.threw
    /\ Len(step.destroyed) = 1
    /\ Len(written) = Len(ConstructorCommands)
    /\ \A k \in 1..Len(written) : At(written[k], 2) = ConstructorCommands[k]
    /\ Len(m_Channels) = 2
    /\ \A p \in Profiles : chan[p].alive

-----------------------------------------------------------------------------
(* Channel slots.  A client of AntStick that constructs and destroys        *)
(* channels in any order, as many as the dongle has: the objects are        *)
(* 1..m_MaxChannels (an object that cannot get a channel number is never    *)
(* registered), all of them heart rate monitors with device number 0, and   *)
(* the client goes on after a failed constructor.                           *)

Objects == 1..m_MaxChannels

SlotNumbers == 0..(m_MaxChannels - 1)

SlotAttempts == [n \in SlotNumbers |-> Attempts(n, ConstructorCommands)]

SlotDestructorReplies ==
    [n \in SlotNumbers |->
        [good |-> GoodReplies(n, DestructorCommands), silent |-> <<>>]]

SlotInit ==
    /\ chan = [o \in Objects |-> NoChannel]
    /\ m_Channels = <<>>
    /\ m_DelayedMessages = <<>>
    /\ m_LastReadMessage = <<>>
    /\ phase = "run"
    /\ written = <<>>
    /\ calls = <<>>
    /\ step = [op |-> "Init", p |-> "none", frame |-> <<>>, threw |-> FALSE,
               destroyed |-> <<>>]
    /\ arrived = <<>>
    /\ usb = NoStream
    /\ TransportInit
    /\ TelemetryInit

(* The storage of the next object *)
NextObject == CHOOSE o \in Objects : ~chan[o].alive /\ \A q \in Objects : q < o => chan[q].alive

SlotConstructed(x) ==
    /\ Len(x.d) <= MaxDelayed
    /\ chan' = IF x.threw THEN chan ELSE [chan EXCEPT ![NextObject] = x.c]
    /\ m_Channels' = IF x.threw THEN m_Channels ELSE Append(m_Channels, NextObject)
    /\ m_DelayedMessages' = x.d
    /\ m_LastReadMessage' = x.resp
    /\ written' = x.w
    /\ calls' = x.hooks
    /\ step' = [op |-> "Construct", p |-> "none", frame |-> <<>>, threw |-> x.threw,
                destroyed |-> <<>>]
    /\ phase' = phase

(* new HeartRateMonitor(stick, 0) *)
SlotConstruct ==
    LET used == UsedNumbers(chan, m_Channels)
        number == NextChannelId(used)
    IN  /\ phase = "run"
        /\ \E a \in IF number = -1 THEN {[inp |-> <<>>, wfail |-> 0]} ELSE SlotAttempts[number] :
           \E x \in {AntChannel(Context(NoChannel, m_LastReadMessage, a.inp,
                                        m_DelayedMessages, a.wfail, 208),
                                "hrm", 0, used)} :
              SlotConstructed(x)
        /\ UNCHANGED <<history, transport, telemetry>>

SlotDestroyed(o, x) ==
    /\ chan' = [chan EXCEPT ![o] = NoChannel]
    /\ m_Channels' = Remove(m_Channels, o)
    /\ m_DelayedMessages' = x.d
    /\ m_LastReadMessage' = x.resp
    /\ written' = x.w
    /\ calls' = x.hooks
    /\ step' = [op |-> "Destroy", p |-> "none", frame |-> <<>>, threw |-> FALSE,
                destroyed |-> <<Remains(x.c)>>]
    /\ phase' = phase

(* delete of a channel object *)
SlotDestroy ==
    /\ phase = "run"
    /\ \E o \in Objects, mode \in UnwindModes :
          /\ chan[o].alive
          /\ \E x \in {DestroyChannel(
                           Context(chan[o], m_LastReadMessage,
                                   SlotDestructorReplies[chan[o].m_ChannelNumber][mode],
                                   m_DelayedMessages, 0, 208), FALSE)} :
                SlotDestroyed(o, x)
    /\ UNCHANGED <<history, transport, telemetry>>

SlotNext ==
    \/ SlotConstruct
    \/ SlotDestroy

SlotSpec == SlotInit /\ [][SlotNext]_vars

RegisteredNumbers == UsedNumbers(chan, m_Channels)

(* The smallest number below m_MaxChannels that no registered channel has *)
IsSmallestFree(n) ==
    /\ n \in SlotNumbers
    /\ n \notin RegisteredNumbers
    /\ \A k \in SlotNumbers : k < n => k \in RegisteredNumbers

SlotsDistinct ==
    /\ \A i, j \in 1..Len(m_Channels) :
           chan[m_Channels[i]].m_ChannelNumber = chan[m_Channels[j]].m_ChannelNumber => i = j
    /\ \A i \in 1..Len(m_Channels) :
           /\ chan[m_Channels[i]].alive
           /\ chan[m_Channels[i]].m_ChannelNumber \in SlotNumbers

SlotAllocated ==
    step'.op = "Construct" =>
        /\ NextChannelId(RegisteredNumbers) # -1 => IsSmallestFree(NextChannelId(RegisteredNumbers))
        /\ NextChannelId(RegisteredNumbers) = -1 <=> RegisteredNumbers = SlotNumbers
        /\ RegisteredNumbers = SlotNumbers =>
               /\ step'.threw
               /\ written' = <<>>
               /\ m_Channels' = m_Channels
        /\ \A k \in 1..Len(written') : At(written'[k], 3) = NextChannelId(RegisteredNumbers)
        /\ ~step'.threw =>
               /\ Len(m_Channels') = Len(m_Channels) + 1
               /\ IsSmallestFree(chan'[m_Channels'[Len(m_Channels')]].m_ChannelNumber)

(* C13: AntStick::NextChannelId returns the smallest number in              *)
(* 0..m_MaxChannels-1 that no registered channel has, and -1 when there is  *)
(* none, in which case the constructor raises before it writes anything;    *)
(* after any sequence of constructions and destructions the registered      *)
(* channels have different numbers, all below m_MaxChannels.                *)
C13_SlotAllocation == []SlotsDistinct /\ [][SlotAllocated]_vars

(* All the dongle's channels are in use, one of them taken again after it   *)
(* was freed, and a constructor has just failed for want of a number.       *)
C13_Witness ==
    /\ RegisteredNumbers = SlotNumbers
    /\ step.op = "Construct"
    /\ step.threw
    /\ written = <<>>
    /\ \E i \in 1..Len(m_Channels) :
           chan[m_Channels[i]].m_ChannelNumber + 1 < i

-----------------------------------------------------------------------------
(* Order of delivery.  The server loop with the frames of two channels      *)
(* arriving between and during the round trips of the EVENT_CHANNEL_CLOSED  *)
(* handler and of the constructors CheckSensorHealth runs.  arrived keeps   *)
(* every frame the reader returned, in the order of arrival, until a Tick   *)
(* takes it; the acknowledgement a round trip waits for is not kept.        *)

OrderWaiting == {Broadcast(1, TrainerPage), ChannelEvent(1, EVENT_RX_FAIL)}

(* What the reader may hold when a round trip reads it *)
OrderPending ==
    {<<>>} \cup {<<f>> : f \in OrderWaiting}
           \cup {q \in OrderWaiting \X OrderWaiting : q[1] # q[2]}

(* What the reader may return to a Tick *)
OrderFrames ==
    OrderWaiting \cup {Broadcast(0, HrmPage), Broadcast(2, HrmPage),
                       ChannelEvent(0, EVENT_CHANNEL_CLOSED),
                       ChannelEvent(1, EVENT_CHANNEL_CLOSED)}

(* What the reader returns during the round trips of cmds: frames waiting  *)
(* before the first acknowledgement and before the last, or no              *)
(* acknowledgement at all                                                   *)
OrderReplies(channel, cmds) ==
    {q[1] \o GoodReplies(channel, SubSeq(cmds, 1, Len(cmds) - 1)) \o q[2]
          \o GoodReplies(channel, <<cmds[Len(cmds)]>>) :
        q \in {q \in OrderPending \X OrderPending : Len(q[1]) + Len(q[2]) <= MaxDelayed}}
    \cup OrderPending

OrderConstructorReplies == [n \in ChannelNumbers |-> OrderReplies(n, ConstructorCommands)]

OrderUnassignReplies == [n \in ChannelNumbers |-> OrderReplies(n, <<UNASSIGN_CHANNEL>>)]

IsCommandReply(f) ==
    /\ At(f, 2) = CHANNEL_RESPONSE
    /\ \E k \in 1..Len(ConstructorCommands) : At(f, 4) = ConstructorCommands[k]
       \/ At(f, 4) = UNASSIGN_CHANNEL

(* The frames of inp the step read, but for the acknowledgements *)
OrderRead(inp, x) ==
    SelectSeq(SubSeq(inp, 1, Len(inp) - Len(x.inp)), LAMBDA f : ~IsCommandReply(f))

RECURSIVE RemoveFirst(_, _)
RemoveFirst(q, f) ==
    IF q = <<>> THEN <<>>
    ELSE IF Head(q) = f THEN Tail(q)
    ELSE <<Head(q)>> \o RemoveFirst(Tail(q), f)

OrderAttemptsFor(p, message) ==
    IF /\ At(message, 2) = CHANNEL_RESPONSE /\ At(message, 4) = 1
       /\ At(message, 5) = EVENT_CHANNEL_CLOSED /\ chan[p].m_State # "CH_CLOSED"
    THEN OrderUnassignReplies[chan[p].m_ChannelNumber]
    ELSE {<<>>}

OrderDelivered(x, p, message, inp, waiting) ==
    /\ Delivered(x, p, message, "Tick")
    /\ arrived' = IF x.threw THEN <<>> ELSE waiting \o OrderRead(inp, x)

(* The rest of AntStick::Tick once m_LastReadMessage holds a frame; waiting *)
(* are the frames that arrived before and are not taken yet                 *)
OrderDispatch(message, d, waiting) ==
    LET p == Route(message)
    IN  IF p = "none"
        THEN /\ UNCHANGED <<chan, m_Channels, phase>>
             /\ m_DelayedMessages' = d
             /\ m_LastReadMessage' = message
             /\ written' = <<>>
             /\ calls' = <<>>
             /\ step' = [op |-> "Tick", p |-> "none", frame |-> message, threw |-> FALSE,
                         destroyed |-> <<>>]
             /\ arrived' = waiting
        ELSE \E rr \in OutcomesFor(p, message) :
             \E inp \in OrderAttemptsFor(p, message) :
             \E x \in {HandleMessage(Context(chan[p], message, inp, d, 0, rr), message)} :
                OrderDelivered(x, p, message, inp, waiting)

(* AntStick::Tick, nothing delayed, the reader returns a frame *)
OrderTick ==
    /\ phase = "run"
    /\ m_DelayedMessages = <<>>
    /\ \E message \in OrderFrames : OrderDispatch(message, <<>>, arrived)
    /\ UNCHANGED <<transport, telemetry>>

(* AntStick::Tick with a delayed frame *)
OrderTickDelayed ==
    /\ phase = "run"
    /\ m_DelayedMessages # <<>>
    /\ OrderDispatch(Head(m_DelayedMessages), Tail(m_DelayedMessages),
                     RemoveFirst(arrived, Head(m_DelayedMessages)))
    /\ UNCHANGED <<transport, telemetry>>

OrderHealthAttempts(cs, reg, p) ==
    IF IsClosed(cs, p)
    THEN OrderConstructorReplies[NextChannelId(UsedNumbers(cs, Remove(reg, p)))]
    ELSE {<<>>}

OrderHealthChecked(r1, r2, read) ==
    /\ HealthChecked(r2, r1.gone)
    /\ arrived' = IF r2.x.threw THEN <<>> ELSE arrived \o read

OrderHrmChecked(r1, inp1) ==
    IF r1.x.threw
    THEN /\ Unwind(r1.cs, r1.x, "CheckSensorHealth", "hrm", <<>>, r1.gone)
         /\ arrived' = <<>>
    ELSE \E inp2 \in OrderHealthAttempts(r1.cs, r1.reg, "fec") :
         \E r2 \in {Replaced(r1.cs, r1.reg, r1.x, "fec", [inp |-> inp2, wfail |-> 0])} :
            OrderHealthChecked(r1, r2, OrderRead(inp1, r1.x) \o OrderRead(inp2, r2.x))

(* TelemetryServer::CheckSensorHealth, when some profile is CH_CLOSED *)
OrderCheckSensorHealth ==
    /\ phase = "run"
    /\ \E p \in Profiles : IsClosed(chan, p)
    /\ \E inp1 \in OrderHealthAttempts(chan, m_Channels, "hrm") :
       \E r1 \in {Replaced(chan, m_Channels, HealthContext, "hrm",
                           [inp |-> inp1, wfail |-> 0])} :
          OrderHrmChecked(r1, inp1)
    /\ UNCHANGED <<transport, telemetry>>

OrderNext ==
    \/ OrderTick
    \/ OrderTickDelayed
    \/ TickIdle
    \/ OrderCheckSensorHealth
    \/ Restart

OrderSpec == Init /\ [][OrderNext]_vars

(* Byte 3 of a frame is its channel number (its low five bits in a burst) *)
ChannelOf(f) == IF At(f, 2) = BURST_TRANSFER_DATA THEN At(f, 3) % 32 ELSE At(f, 3)

(* The arrived frames that are older than the one a Tick takes *)
RECURSIVE OlderThan(_, _)
OlderThan(q, f) ==
    IF q = <<>> \/ Head(q) = f THEN <<>> ELSE <<Head(q)>> \o OlderThan(Tail(q), f)

HandedInOrder ==
    step'.op = "Tick" /\ step'.p # "none" =>
        \A i \in 1..Len(OlderThan(arrived, step'.frame)) :
            ChannelOf(OlderThan(arrived, step'.frame)[i]) # ChannelOf(step'.frame)

(* C14: a frame is handed to a channel's HandleMessage only when no frame   *)
(* of the same channel that arrived before it is still waiting, whatever    *)
(* frames arrived during round trips: no two frames of a channel are        *)
(* delivered in swapped order.                                              *)
C14_HandedInOrder == [][HandedInOrder]_vars

(* A broadcast of the trainer channel that arrived during a round trip has  *)
(* been handed to the trainer while an event of the same channel that       *)
(* arrived after it waits.                                                  *)
C14_Witness ==
    /\ step.op = "Tick"
    /\ step.p = "fec"
    /\ ~step.threw
    /\ step.frame = Broadcast(1, TrainerPage)
    /\ arrived = <<ChannelEvent(1, EVENT_RX_FAIL)>>
    /\ m_DelayedMessages = arrived

(* The delayed queue holds the waiting frames, oldest first *)
DelayedInOrder == phase = "run" => m_DelayedMessages = arrived

(* A Tick takes the oldest waiting frame and leaves the others waiting; a   *)
(* Tick that reads the reader finds nothing waiting.                        *)
TickTakesOldest ==
    step'.op = "Tick" /\ step'.frame # <<>> =>
        /\ arrived # <<>> => step'.frame = Head(arrived)
        /\ arrived # <<>> /\ ~step'.threw => IsPrefix(Tail(arrived), arrived')
        /\ arrived # <<>> /\ ~step'.threw => IsPrefix(Tail(arrived), m_DelayedMessages')

-----------------------------------------------------------------------------
(* The framer: AntMessageReader.  r is the reader during a call: its        *)
(* members, the caller's message, what the call raised, whether it ends in  *)
(* the tail call of GetNextMessage1, and whether it asked libusb for a      *)
(* transfer.                                                                *)

read_size == 128

Resize(b, n) == [i \in 1..n |-> IF i <= Len(b) THEN b[i] ELSE 0]

Min(a, b) == IF a < b THEN a ELSE b

(* AntMessageReader::CompleteUsbTransfer; libusb has put bytes at           *)
(* &m_Buffer[m_Mark]                                                        *)
CompleteUsbTransfer(r, status, bytes) ==
    LET mark == IF status = "COMPLETED" THEN r.m_Mark + Len(bytes) ELSE r.m_Mark
    IN  [r EXCEPT !.m_Active = FALSE,
                  !.m_Mark = mark,
                  !.m_Buffer = SubSeq(SubSeq(@, 1, r.m_Mark) \o bytes, 1, mark)]

(* AntMessageReader::SubmitUsbTransfer; ok is whether libusb_submit_transfer *)
(* accepts the transfer                                                     *)
SubmitUsbTransfer(r, ok) ==
    LET r1 == [r EXCEPT !.m_Buffer = Resize(@, r.m_Mark + read_size), !.asked = TRUE]
    IN  IF ok THEN [r1 EXCEPT !.m_Active = TRUE]
        ELSE [r1 EXCEPT !.raised = "LibusbError"]

(* The while loop of GetNextMessage1 *)
RECURSIVE Resync(_)
Resync(r) ==
    IF r.m_Buffer # <<>> /\ r.m_Buffer[1] # SYNC_BYTE
    THEN Resync([r EXCEPT !.m_Buffer = Tail(@), !.m_Mark = @ - 1])
    ELSE r

(* Mutant: the checksum of the message is not looked at *)
GetNextMessage1Unchecked(r, ok) ==
    LET r1 == Resync([r EXCEPT !.m_Buffer = SubSeq(@, 1, r.m_Mark)])
        len == r1.m_Buffer[2] + 4
        more == [SubmitUsbTransfer(r1, ok) EXCEPT !.again = ok]
    IN  IF r1.m_Mark < 4 THEN more
        ELSE IF r1.m_Mark < len THEN more
        ELSE [r1 EXCEPT !.message = SubSeq(r1.m_Buffer, 1, len),
                        !.m_Buffer = SubSeq(@, len + 1, Len(@)),
                        !.m_Mark = @ - len]

(* AntMessageReader::GetNextMessage1, up to its tail call *)
GetNextMessage1(r, ok) ==
    LET r1 == Resync([r EXCEPT !.m_Buffer = SubSeq(@, 1, r.m_Mark)])
        len == r1.m_Buffer[2] + 4
        more == [SubmitUsbTransfer(r1, ok) EXCEPT !.again = ok]
        taken == [r1 EXCEPT !.message = SubSeq(r1.m_Buffer, 1, len),
                            !.m_Buffer = SubSeq(@, len + 1, Len(@)),
                            !.m_Mark = @ - len]
    IN  IF r1.m_Mark < 4 THEN more
        ELSE IF r1.m_Mark < len THEN more
        ELSE IF IsGoodChecksum(taken.message) THEN taken
        ELSE [taken EXCEPT !.raised = "bad checksum"]

(* libusb_handle_events_timeout_completed while the reader's transfer is in *)
(* flight: nothing completes in time, the call fails, or the transfer       *)
(* completes with a status and the callback runs                            *)
Pumped(r, o) ==
    IF o.pump = "pending" THEN r
    ELSE IF o.pump = "error" THEN [r EXCEPT !.raised = "LibusbError"]
    ELSE CompleteUsbTransfer(r, o.pump, o.bytes)

(* AntMessageReader::MaybeGetNextMessage, up to the tail call of            *)
(* GetNextMessage1                                                          *)
MaybeGetNextMessage(r, o) ==
    LET r0 == [r EXCEPT !.message = <<>>, !.again = FALSE]
        r1 == IF r0.m_Active THEN Pumped(r0, o) ELSE r0
    IN  IF r1.raised # "none" THEN r1
        ELSE IF ~r1.m_Active THEN GetNextMessage1(r1, o.ok)
        ELSE r1

ReaderOf(rd) ==
    [m_Buffer |-> rd.m_Buffer, m_Mark |-> rd.m_Mark, m_Active |-> rd.m_Active,
     message |-> <<>>, raised |-> "none", again |-> FALSE, asked |-> FALSE]

(* What the dongle sends and how the transfers go.  A stream is a frame     *)
(* made by MakeMessage, as it is, with one bit flipped, or after garbage;   *)
(* a transfer brings its next bytes, up to MaxChunk of them or as many as   *)
(* there are, up to read_size.  A flood is a dongle that always has bytes   *)
(* for the transfer.                                                        *)

MaxPayload == 2

MaxGarbage == 2

LongestPayload == 255

MaxChunk == 3

MsgIds == {CHANNEL_RESPONSE, BROADCAST_DATA}

PayloadBytes == {0, 228}

GarbageBytes == {0, 164}

Payloads == UNION {[1..n -> PayloadBytes] : n \in 0..MaxPayload}

Garbage == UNION {[1..n -> GarbageBytes] : n \in 1..MaxGarbage}

FlipBit(b, k) == [b EXCEPT ![(k \div 8) + 1] = Xor(@, 2^(k % 8))]

Sent ==
    {[id |-> id, payload |-> pl, garbage |-> <<>>, bit |-> -1] :
        id \in MsgIds, pl \in Payloads \cup {[i \in 1..LongestPayload |-> 0]}}
    \cup {[id |-> id, payload |-> pl, garbage |-> g, bit |-> -1] :
        id \in MsgIds, pl \in Payloads, g \in Garbage}
    \cup UNION {{[id |-> id, payload |-> pl, garbage |-> <<>>, bit |-> k] :
                    k \in 0..(8 * (Len(pl) + 4) - 1)} : id \in MsgIds, pl \in Payloads}

StreamOf(sent) ==
    sent.garbage \o (IF sent.bit = -1 THEN MakeMessage(sent.id, sent.payload)
                     ELSE FlipBit(MakeMessage(sent.id, sent.payload), sent.bit))

(* Endless streams, as the bytes that repeat: bytes the reader drops, and a *)
(* message with a bad checksum over and over, alone or before such a byte   *)
FloodStreams == {<<0, 1>>, <<164, 1, 64, 0, 0>>, <<164, 2, 64, 0, 0, 0, 3>>}

Cycled(s, n) == [i \in 1..Len(s) |-> s[((i + n - 1) % Len(s)) + 1]]

MaxResults == 3

Chunks(u) ==
    IF u.flood THEN {[i \in 1..n |-> Cycled(u.stream, i - 1)[1]] : n \in 1..MaxChunk}
    ELSE {SubSeq(u.stream, 1, n) :
             n \in (1..Min(Len(u.stream), MaxChunk)) \cup
                   (IF u.stream = <<>> THEN {} ELSE {Min(Len(u.stream), read_size)})}

PumpOutcomes(u) ==
    {[pump |-> "COMPLETED", bytes |-> c] : c \in Chunks(u)}
    \cup {[pump |-> st, bytes |-> <<>>] : st \in {"ERROR", "error"}}
    \cup (IF u.flood THEN {} ELSE {[pump |-> "pending", bytes |-> <<>>]})

Outcomes(rd, u) ==
    {[pump |-> o.pump, bytes |-> o.bytes, ok |-> ok] :
        o \in IF rd.m_Active THEN PumpOutcomes(u) ELSE {[pump |-> "pending", bytes |-> <<>>]},
        ok \in BOOLEAN}

Completes(rd, o) == rd.m_Active /\ o.pump \notin {"pending", "error"}

StreamAfter(u, rd, o) ==
    IF Completes(rd, o) /\ o.pump = "COMPLETED"
    THEN IF u.flood THEN Cycled(u.stream, Len(o.bytes))
         ELSE SubSeq(u.stream, Len(o.bytes) + 1, Len(u.stream))
    ELSE u.stream

(* One pass of MaybeGetNextMessage with outcome o; libusb refuses a         *)
(* transfer that is in flight                                               *)
FramerPass(o) ==
    LET inflight == usb.reading /\ ~Completes(m_Reader, o)
        r == MaybeGetNextMessage(ReaderOf(m_Reader), [o EXCEPT !.ok = o.ok /\ ~inflight])
    IN  /\ m_Reader' = [m_Buffer |-> r.m_Buffer, m_Mark |-> r.m_Mark, m_Active |-> r.m_Active]
        /\ usb' = [usb EXCEPT !.stream = StreamAfter(usb, m_Reader, o),
                              !.reading = inflight \/ (r.asked /\ r.m_Active),
                              !.resubmitted = IF r.asked /\ inflight THEN @ \cup {"in"} ELSE @]
        /\ call' = [pc |-> IF r.again THEN "again" ELSE "idle",
                    message |-> r.message, raised |-> r.raised]
        /\ results' = IF r.raised = "bad checksum"
                      THEN Append(results, [kind |-> "bad checksum", message |-> r.message])
                      ELSE IF r.message # <<>>
                      THEN Append(results, [kind |-> "frame", message |-> r.message])
                      ELSE results
        /\ UNCHANGED <<m_Writer, dispatch, history, telemetry>>

(* A call of AntMessageReader::MaybeGetNextMessage *)
MaybeGetNextMessageCalled ==
    /\ call.pc = "idle"
    /\ Len(results) < MaxResults
    /\ \E o \in Outcomes(m_Reader, usb) : FramerPass(o)

(* The tail call of GetNextMessage1 *)
MaybeGetNextMessageAgain ==
    /\ call.pc = "again"
    /\ \E o \in Outcomes(m_Reader, usb) : FramerPass(o)

(* The reader's transfer completes in another call of libusb's event        *)
(* handling: TickAntStick, AntMessageWriter::WaitForCompletion               *)
PumpElsewhere ==
    /\ call.pc = "idle"
    /\ m_Reader.m_Active
    /\ \E o \in {o \in PumpOutcomes(usb) : o.pump \notin {"pending", "error"}} :
          /\ m_Reader' = [m_Buffer |-> CompleteUsbTransfer(m_Reader, o.pump, o.bytes).m_Buffer,
                          m_Mark |-> CompleteUsbTransfer(m_Reader, o.pump, o.bytes).m_Mark,
                          m_Active |-> FALSE]
          /\ usb' = [usb EXCEPT !.stream = StreamAfter(usb, m_Reader, o), !.reading = FALSE]
    /\ UNCHANGED <<m_Writer, call, results, dispatch, history, telemetry>>

NoChannels ==
    /\ chan = [p \in Profiles |-> NoChannel]
    /\ m_Channels = <<>>
    /\ m_DelayedMessages = <<>>
    /\ m_LastReadMessage = <<>>
    /\ phase = "run"
    /\ written = <<>>
    /\ calls = <<>>
    /\ step = [op |-> "Init", p |-> "none", frame |-> <<>>, threw |-> FALSE,
               destroyed |-> <<>>]
    /\ arrived = <<>>

FrameInit ==
    /\ NoChannels
    /\ TransportInit
    /\ TelemetryInit
    /\ \E sent \in Sent :
          usb = [NoStream EXCEPT !.stream = StreamOf(sent), !.sent = sent]

FrameNext ==
    \/ MaybeGetNextMessageCalled
    \/ MaybeGetNextMessageAgain
    \/ PumpElsewhere

FrameSpec == FrameInit /\ [][FrameNext]_vars

(* The reader has returned every frame it could make of the stream: all    *)
(* bytes were transferred and it has asked for more                         *)
Quiescent ==
    /\ ~usb.flood
    /\ usb.stream = <<>>
    /\ call.pc = "idle"
    /\ m_Reader.m_Active

FrameOf(sent) == MakeMessage(sent.id, sent.payload)

Decoded(message) == [id |-> At(message, 2), payload |-> SubSeq(message, 4, Len(message) - 1)]

IsFrame(result, message) == result = [kind |-> "frame", message |-> message]

PlainlySent == usb.sent.bit = -1 /\ usb.sent.garbage = <<>>

RoundTrip ==
    PlainlySent =>
        /\ XorAll(FrameOf(usb.sent)) = 0
        /\ Len(results) <= 1
        /\ \A i \in 1..Len(results) :
               /\ IsFrame(results[i], FrameOf(usb.sent))
               /\ Decoded(results[i].message) =
                      [id |-> usb.sent.id, payload |-> usb.sent.payload]
        /\ Quiescent => Len(results) = 1

EmittedWellFormed ==
    \A i \in 1..Len(results) :
        results[i].kind = "frame" =>
            /\ At(results[i].message, 0) = SYNC_BYTE
            /\ Len(results[i].message) = At(results[i].message, 1) + 4
            /\ XorAll(results[i].message) = 0

(* C16: the bytes of MakeMessage(id, payload), however the transfers cut    *)
(* them, make the reader return one frame, with this id and payload, and    *)
(* nothing else; their XOR is zero; and whatever the stream, a frame the    *)
(* reader returns starts with SYNC_BYTE, is LEN + 4 bytes long and has XOR  *)
(* zero.                                                                    *)
C16_FramingRoundTrip == RoundTrip /\ EmittedWellFormed

(* The longest frame, which takes more than one transfer, has been returned *)
C16_Witness ==
    /\ PlainlySent
    /\ Len(usb.sent.payload) = LongestPayload
    /\ Quiescent
    /\ results = <<[kind |-> "frame", message |-> FrameOf(usb.sent)]>>

(* The stream is a frame with one bit flipped, from bit first on *)
FlippedFrom(first) == usb.sent.bit >= first

Rejected(first) ==
    FlippedFrom(first) =>
        /\ \A i \in 1..Len(results) : results[i].kind = "bad checksum"
        /\ Quiescent => Len(results) = 1

(* C17: a frame with one bit flipped, in any of its bytes, makes the reader *)
(* raise "bad checksum", once, and return no frame.                         *)
C17_ChecksumRejection == Rejected(0)

(* C17 for the bits of the message id, the payload and the checksum *)
C17_RejectionPastLength == Rejected(16)

(* The frame with a bit of SYNC flipped has been read and dropped, and      *)
(* nothing was raised                                                       *)
C17_Witness ==
    /\ usb.sent.bit \in 0..7
    /\ usb.sent.garbage = <<>>
    /\ Quiescent
    /\ results = <<>>
    /\ m_Reader.m_Mark = 0

(* A frame with a bit of LEN flipped: the reader has returned its first     *)
(* bytes as a frame                                                         *)
C17_ShorterFrame ==
    /\ usb.sent.bit \in 8..15
    /\ Quiescent
    /\ \E i \in 1..Len(results) : results[i].kind = "frame"

(* The stream is garbage followed by an intact frame *)
GarbageFirst == usb.sent.bit = -1 /\ usb.sent.garbage # <<>>

HasSync(b) == \E i \in 1..Len(b) : b[i] = SYNC_BYTE

Resynced ==
    /\ \A i \in 1..Len(results) : IsFrame(results[i], FrameOf(usb.sent))
    /\ Len(results) <= 1
    /\ Quiescent => Len(results) = 1

(* C18: from garbage bytes followed by a valid frame the reader returns     *)
(* exactly one frame, the valid one, whatever the garbage bytes are.        *)
C18_Resync == GarbageFirst => Resynced

(* C18 for garbage in which no byte is 0xA4 *)
C18_ResyncPastPlainGarbage ==
    GarbageFirst /\ ~HasSync(usb.sent.garbage) => Resynced

(* Garbage containing 0xA4 and a frame have been read to the end and the    *)
(* frame was not returned                                                   *)
C18_Witness ==
    /\ GarbageFirst
    /\ HasSync(usb.sent.garbage)
    /\ Quiescent
    /\ \A i \in 1..Len(results) : ~IsFrame(results[i], FrameOf(usb.sent))

(* A dongle that has bytes for every transfer: each read completes at once, *)
(* with the next bytes of an endless stream or in error                     *)
FloodInit ==
    /\ NoChannels
    /\ TransportInit
    /\ TelemetryInit
    /\ \E stream \in FloodStreams :
          usb = [NoStream EXCEPT !.flood = TRUE, !.stream = stream]

(* The thread that is inside GetNextMessage1 goes on to its tail call *)
FloodSpec == FloodInit /\ [][FrameNext]_vars /\ WF_vars(MaybeGetNextMessageAgain)

(* C19: a call of MaybeGetNextMessage returns, with a frame, without one or *)
(* with an error, also when the dongle never stops sending and no message   *)
(* completes.                                                               *)
C19_DispatchTerminates == (call.pc = "again") ~> (call.pc = "idle")

(* Inside one call, with nothing returned so far, the reader has submitted  *)
(* its transfer again and is about to call itself                           *)
C19_Witness ==
    /\ usb.flood
    /\ call.pc = "again"
    /\ results = <<>>
    /\ m_Reader.m_Active
    /\ m_Reader.m_Mark = 0

(* AntMessageWriter.  w is the writer with the state of its transfer at     *)
(* libusb (writing: submitted and neither completed nor cancelled), whether *)
(* a submit was made on the transfer in flight (resub), and what was raised *)

WriteStatuses == {"COMPLETED", "TIMED_OUT", "STALL"}

WriterOf(wr, u) ==
    [m_Buffer |-> wr.m_Buffer, m_Active |-> wr.m_Active, status |-> wr.status,
     writing |-> u.writing, resub |-> FALSE, raised |-> "none", log |-> <<>>]

(* AntMessageWriter::SubmitUsbTransfer; libusb_submit_transfer refuses a    *)
(* transfer that is in flight, and ok is whether it accepts another         *)
WriterSubmitUsbTransfer(w, message, ok) ==
    LET w1 == [w EXCEPT !.m_Buffer = message]
        refused == [w1 EXCEPT !.raised = "LibusbError",
                              !.log = Append(@, "libusb_submit_transfer refused")]
    IN  IF w.writing THEN [refused EXCEPT !.resub = TRUE]
        ELSE IF ok THEN [w1 EXCEPT !.m_Active = TRUE, !.writing = TRUE,
                                   !.log = Append(@, "libusb_submit_transfer")]
        ELSE refused

(* AntMessageWriter::CompleteUsbTransfer, with the status libusb has set *)
WriterCompleteUsbTransfer(w, status) ==
    [w EXCEPT !.m_Active = FALSE, !.status = status, !.writing = FALSE]

(* AntMessageWriter::WaitForCompletion: the loop ends with the transfer     *)
(* completed, with the time used up and the transfer in flight (at once     *)
(* when the uninitialised accumulated is large), or with                    *)
(* libusb_handle_events_timeout_completed failing                           *)
WaitForCompletion(w, wait) ==
    LET w1 == [w EXCEPT !.log = Append(@, "libusb_handle_events_timeout_completed")]
    IN  IF ~w.m_Active \/ wait = "inflight" THEN w
        ELSE IF wait = "error" THEN [w1 EXCEPT !.raised = "LibusbError"]
        ELSE WriterCompleteUsbTransfer(w1, wait)

(* AntMessageWriter::WriteMessage; o.asserts is whether assert is compiled  *)
(* in, and a failed assert ends the program                                 *)
WriterWriteMessage(w, message, o) ==
    IF w.m_Active /\ o.asserts THEN [w EXCEPT !.raised = "abort"]
    ELSE LET s  == WriterSubmitUsbTransfer(w, message, o.ok)
             wt == WaitForCompletion(s, o.wait)
             w3 == IF wt.status = "COMPLETED" THEN [wt EXCEPT !.m_Active = FALSE] ELSE wt
         IN  IF s.raised # "none" THEN s
             ELSE IF wt.raised # "none" THEN wt
             ELSE IF w3.m_Active \/ w3.status # "COMPLETED"
             THEN [w3 EXCEPT !.m_Active = FALSE, !.raised = "LibusbError",
                             !.log = IF w3.status = "STALL"
                                     THEN Append(@, "libusb_clear_halt") ELSE @]
             ELSE w3

WriteOutcomes ==
    [ok : BOOLEAN, asserts : BOOLEAN, wait : WriteStatuses \cup {"inflight", "error"}]

WrittenMessages ==
    {MakeMessage(CLOSE_CHANNEL, <<0>>), MakeMessage(UNASSIGN_CHANNEL, <<0>>)}

(* A call of AntMessageWriter::WriteMessage *)
WriteMessageCalled ==
    /\ call.pc = "idle"
    /\ Len(results) < MaxResults
    /\ \E message \in WrittenMessages, o \in WriteOutcomes :
          LET w == WriterWriteMessage(WriterOf(m_Writer, usb), message, o)
          IN  /\ m_Writer' = [m_Buffer |-> w.m_Buffer, m_Active |-> w.m_Active,
                              status |-> w.status]
              /\ usb' = [usb EXCEPT !.writing = w.writing,
                                    !.libusb = w.log,
                                    !.resubmitted = IF w.resub THEN @ \cup {"out"} ELSE @]
              /\ call' = [pc |-> IF w.raised = "abort" THEN "aborted" ELSE "idle",
                          message |-> <<>>, raised |-> w.raised]
              /\ results' = Append(results, [kind |-> IF w.raised = "none" THEN "written"
                                                      ELSE w.raised,
                                             message |-> message])
    /\ UNCHANGED <<m_Reader, dispatch, history, telemetry>>

(* The writer's transfer completes in another call of libusb's event        *)
(* handling: TickAntStick, AntMessageReader::MaybeGetNextMessage             *)
WriteCompletes ==
    /\ call.pc = "idle"
    /\ usb.writing
    /\ \E status \in WriteStatuses :
          LET w == WriterCompleteUsbTransfer(WriterOf(m_Writer, usb), status)
          IN  /\ m_Writer' = [m_Buffer |-> w.m_Buffer, m_Active |-> w.m_Active,
                              status |-> w.status]
              /\ usb' = [usb EXCEPT !.writing = FALSE]
    /\ UNCHANGED <<m_Reader, call, results, dispatch, history, telemetry>>

(* Reader and writer on one dongle that sends a broadcast of one page byte  *)
UsbInit ==
    /\ NoChannels
    /\ TransportInit
    /\ TelemetryInit
    /\ \E sent \in {x \in Sent : /\ x.bit = -1
                                 /\ x.garbage = <<>>
                                 /\ x.id = BROADCAST_DATA
                                 /\ Len(x.payload) = 1} :
          usb = [NoStream EXCEPT !.stream = StreamOf(sent), !.sent = sent]

UsbNext ==
    \/ MaybeGetNextMessageCalled
    \/ MaybeGetNextMessageAgain
    \/ PumpElsewhere
    \/ WriteMessageCalled
    \/ WriteCompletes

UsbSpec == UsbInit /\ [][UsbNext]_vars

(* C20: neither the read transfer nor the write transfer is submitted while *)
(* it is in flight, i.e. submitted and neither completed nor cancelled,     *)
(* also after a write whose wait timed out.                                 *)
C20_OneOutstanding == usb.resubmitted = {}

(* C20 for the read transfer *)
C20_OneReadOutstanding == "in" \notin usb.resubmitted

(* WriteMessage has raised for a wait that ended with the transfer in       *)
(* flight, and the writer counts it as not active                           *)
C20_Witness ==
    /\ usb.writing
    /\ ~m_Writer.m_Active
    /\ call.raised = "LibusbError"
    /\ results # <<>>
    /\ results[Len(results)].kind = "LibusbError"

(* The step is a call of AntMessageWriter::WriteMessage that raised after   *)
(* libusb took its transfer                                                 *)
WriteRaised ==
    /\ results' # results
    /\ results'[Len(results')].kind = "LibusbError"
    /\ usb'.libusb # <<>>
    /\ usb'.libusb[1] = "libusb_submit_transfer"

Called(log, fn) == \E i \in 1..Len(log) : log[i] = fn

(* The transfer of the call has completed with STALL *)
StallCleared ==
    WriteRaised /\ ~usb'.writing /\ m_Writer'.status = "STALL"
        => Called(usb'.libusb, "libusb_clear_halt")

CancelledBeforeRaise == (WriteRaised => ~usb'.writing) /\ StallCleared

(* C21: when a write fails or does not complete in time, WriteMessage raises *)
(* only after the transfer is cancelled and its completion seen, so that no *)
(* write transfer is in flight; on STALL it has cleared the halt.           *)
C21_CancelledBeforeRaise == [][CancelledBeforeRaise]_vars

(* C21 for STALL: the halt is cleared before the error is raised *)
C21_StallCleared == [][StallCleared]_vars

(* WriteMessage has raised for a transfer that completed with STALL, after  *)
(* clearing the halt                                                        *)
C21_Witness ==
    /\ results # <<>>
    /\ results[Len(results)].kind = "LibusbError"
    /\ m_Writer.status = "STALL"
    /\ ~usb.writing
    /\ usb.libusb = <<"libusb_submit_transfer", "libusb_handle_events_timeout_completed",
                      "libusb_clear_halt">>

-----------------------------------------------------------------------------
(* The readings of the profiles and their staleness.  Speed is kept in      *)
(* thousandths of a metre per second, as it is on the wire.                 *)

STALE_TIMEOUT == 5000

(* uint32_t subtraction, and addition of a number below 65536 *)
Sub32(a, b) ==
    IF a.lo >= b.lo THEN [hi |-> (a.hi - b.hi + Half) % Half, lo |-> a.lo - b.lo]
    ELSE [hi |-> (a.hi - b.hi - 1 + Half) % Half, lo |-> a.lo - b.lo + Half]

Add32(a, d) ==
    [hi |-> (a.hi + ((a.lo + d) \div Half)) % Half, lo |-> (a.lo + d) % Half]

(* a > n for a number n below 65536 *)
Above(a, n) == a.hi > 0 \/ a.lo > n

(* HeartRateMonitor::OnMessageReceived at time t *)
HeartRateRead(r, t, hr) ==
    [r EXCEPT !.m_InstantHeartRate = hr, !.m_InstantHeartRateTimestamp = t]

(* FitnessEquipmentControl::ProcessGeneralPage at time t *)
GeneralPageRead(r, t, speed) ==
    [r EXCEPT !.m_InstantSpeedTimestamp = t, !.m_InstantSpeed = speed]

(* FitnessEquipmentControl::ProcessTrainerSpecificPage at time t *)
TrainerPageRead(r, t, power, cadence) ==
    [r EXCEPT !.m_InstantPowerTimestamp = t, !.m_InstantPower = power,
              !.m_InstantCadence = cadence]

(* HeartRateMonitor::OnStateChanged to a state other than CH_OPEN *)
HrmNotOpen(r) ==
    [r EXCEPT !.m_InstantHeartRate = 0, !.m_InstantHeartRateTimestamp = Zero32]

(* FitnessEquipmentControl::OnStateChanged to a state other than CH_OPEN *)
FecNotOpen(r) ==
    [r EXCEPT !.m_InstantPower = 0, !.m_InstantSpeed = 0, !.m_InstantCadence = 0]

InstantHeartRate(r, t) ==
    IF Above(Sub32(t, r.m_InstantHeartRateTimestamp), STALE_TIMEOUT) THEN 0
    ELSE r.m_InstantHeartRate

InstantPower(r, t) ==
    IF Above(Sub32(t, r.m_InstantPowerTimestamp), STALE_TIMEOUT) THEN 0
    ELSE r.m_InstantPower

InstantSpeed(r, t) ==
    IF Above(Sub32(t, r.m_InstantPowerTimestamp), STALE_TIMEOUT) THEN 0
    ELSE r.m_InstantSpeed

InstantCadence(r, t) ==
    IF Above(Sub32(t, r.m_InstantPowerTimestamp), STALE_TIMEOUT) THEN 0
    ELSE r.m_InstantCadence

(* The readings the sensors send, the clock at construction, and how far    *)
(* the clock moves between two events                                       *)
MaxElapsed == 7600

HeartRates == {60}

Powers == {200}

Speeds == {8000}

Cadences == {90}

Elapses == {2500, 2501}

Boots == {Zero32, [hi |-> Half - 1, lo |-> Half - 2501]}

HeartRateReceived ==
    /\ \E hr \in HeartRates : readings' = HeartRateRead(readings, now, hr)
    /\ UNCHANGED <<now, out, dispatch, history, transport>>

GeneralPageReceived ==
    /\ \E speed \in Speeds : readings' = GeneralPageRead(readings, now, speed)
    /\ UNCHANGED <<now, out, dispatch, history, transport>>

TrainerPageReceived ==
    /\ \E power \in Powers, cadence \in Cadences :
          readings' = TrainerPageRead(readings, now, power, cadence)
    /\ UNCHANGED <<now, out, dispatch, history, transport>>

HrmStateChanged ==
    /\ readings' = HrmNotOpen(readings)
    /\ UNCHANGED <<now, out, dispatch, history, transport>>

FecStateChanged ==
    /\ readings' = FecNotOpen(readings)
    /\ UNCHANGED <<now, out, dispatch, history, transport>>

TimePasses ==
    /\ \E d \in Elapses :
          /\ ~Above(Add32(Sub32(now, readings.booted), d), MaxElapsed)
          /\ now' = Add32(now, d)
    /\ UNCHANGED <<readings, out, dispatch, history, transport>>

(* TelemetryServer::CollectTelemetry with both channels CH_OPEN *)
CollectTelemetry ==
    /\ out' = [hr |-> InstantHeartRate(readings, now),
               cad |-> InstantCadence(readings, now),
               pwr |-> InstantPower(readings, now),
               spd |-> InstantSpeed(readings, now)]
    /\ UNCHANGED <<now, readings, dispatch, history, transport>>

StaleInit ==
    /\ NoChannels
    /\ TransportInit
    /\ usb = NoStream
    /\ \E t \in Boots : now = t /\ readings = NewReadings(t)
    /\ out = NoTelemetry

StaleNext ==
    \/ HeartRateReceived
    \/ GeneralPageReceived
    \/ TrainerPageReceived
    \/ HrmStateChanged
    \/ FecStateChanged
    \/ TimePasses
    \/ CollectTelemetry

StaleSpec == StaleInit /\ [][StaleNext]_vars

(* What an accessor returns for a reading that was stored at time stamp *)
Fresh(stamp) == ~Above(Sub32(now, stamp), STALE_TIMEOUT)

Governed(returned, reading, stamp) ==
    returned = IF Fresh(stamp) THEN reading ELSE 0

C22_StalenessButSpeed ==
    /\ Governed(InstantHeartRate(readings, now), readings.m_InstantHeartRate,
                readings.m_InstantHeartRateTimestamp)
    /\ Governed(InstantPower(readings, now), readings.m_InstantPower,
                readings.m_InstantPowerTimestamp)
    /\ Governed(InstantCadence(readings, now), readings.m_InstantCadence,
                readings.m_InstantPowerTimestamp)

C22_StaleSpeedReported ==
    /\ out.spd # 0
    /\ out.spd = InstantSpeed(readings, now)
    /\ ~Fresh(readings.m_InstantSpeedTimestamp)
    /\ now.hi < readings.m_InstantSpeedTimestamp.hi

-----------------------------------------------------------------------------
(* The step is a Tick that handed a frame to a channel *)
TickInChannel == step'.op = "Tick" /\ step'.p \in Profiles

ErrorContained ==
    TickInChannel =>
        /\ ~step'.threw
        /\ phase' = "run"
        /\ \A q \in Profiles \ {step'.p} :
              chan[q].alive => chan'[q] = chan[q] /\ Alive(q)'

(* C23: an error raised while Tick handles a frame for a channel does not   *)
(* leave Tick: the server keeps running and the other channels stay as they *)
(* are, registered and served.                                              *)
C23_ErrorContained == [][ErrorContained]_vars

(* A Tick raised while handling a frame for the heart rate monitor, and the *)
(* trainer's channel was deleted by the unwinding                           *)
C23_Witness ==
    /\ step.op = "Tick"
    /\ step.p = "hrm"
    /\ step.threw
    /\ phase = "down"
    /\ Len(step.destroyed) = 2
    /\ ~chan["fec"].alive

-----------------------------------------------------------------------------
(* Pairing with sensors of all device numbers: the trainer's channel is     *)
(* sent channel ids, is closed and replaced.                                *)

WireIds ==
    {<<1, 0, FEC_DEVICE_TYPE, 1>>, <<255, 255, FEC_DEVICE_TYPE, 1>>,
     <<1, 0, FEC_DEVICE_TYPE, 17>>, <<0, 0, FEC_DEVICE_TYPE, 17>>,
     <<255, 255, FEC_DEVICE_TYPE, 241>>}

IdFrames ==
    {ChannelIdResponse(1, id) : id \in WireIds}
    \cup {ChannelEvent(1, EVENT_CHANNEL_CLOSED), Broadcast(1, TrainerPage)}

(* AntStick::Tick, nothing delayed, the reader returns one of these frames *)
TickIdFrame ==
    /\ phase = "run"
    /\ m_DelayedMessages = <<>>
    /\ \E message \in IdFrames : Dispatch(message, <<>>, "Tick")
    /\ UNCHANGED <<history, transport, telemetry>>

IdNext ==
    \/ TickIdFrame
    \/ TickDelayed
    \/ CheckSensorHealth
    \/ Restart

IdSpec == Init /\ [][IdNext]_vars

(* The 20-bit device number in the bytes an object has heard *)
HeardNumber(heard) == heard[1] + heard[2] * 256 + (heard[3] \div 16) * 65536

(* The object holds the number it heard *)
LearnedInFull(c) ==
    c.alive /\ c.heard # <<>> => c.DeviceNumber = HeardNumber(c.heard)

(* SET_CHANNEL_ID was written with the bytes the deleted object had heard *)
EmittedAsHeard(gone) ==
    gone.heard # <<>> =>
        \E k \in 1..Len(written) :
            /\ At(written[k], 2) = SET_CHANNEL_ID
            /\ At(written[k], 4) = gone.heard[1]
            /\ At(written[k], 5) = gone.heard[2]
            /\ At(written[k], 7) \div 16 = gone.heard[3] \div 16

RoundTripOf(numbers) ==
    /\ \A p \in Profiles :
          chan[p].alive /\ chan[p].heard # <<>> /\ HeardNumber(chan[p].heard) \in numbers
              => LearnedInFull(chan[p])
    /\ (step.op = "CheckSensorHealth" /\ ~step.threw) =>
          \A i \in 1..Len(step.destroyed) :
              ( /\ step.destroyed[i].heard # <<>>
                /\ HeardNumber(step.destroyed[i].heard) \in numbers )
                  => EmittedAsHeard(step.destroyed[i])

(* C24: the device number an object learns from RESPONSE_CHANNEL_ID is the  *)
(* 20-bit number of the frame, and the SET_CHANNEL_ID written for the       *)
(* object that replaces it carries the same low byte, high byte and high    *)
(* nibble of the transmission type, for every device number.                *)
C24_DeviceNumberRoundTrip == RoundTripOf(0..1048575)

(* C24 for the device numbers that fit 16 bits *)
C24_RoundTripBelow65536 == RoundTripOf(0..65535)

(* The trainer's channel heard device number 65537, was closed and replaced *)
C24_Witness ==
    /\ step.op = "CheckSensorHealth"
    /\ ~step.threw
    /\ \E i \in 1..Len(step.destroyed) :
           /\ step.destroyed[i].kind = "fec"
           /\ step.destroyed[i].heard = <<1, 0, 17>>
    /\ chan["fec"].alive
    /\ chan["fec"].DeviceNumber = 1

(* ... heard device number 65535, was closed and replaced *)
C24_SixteenBits ==
    /\ step.op = "CheckSensorHealth"
    /\ ~step.threw
    /\ \E i \in 1..Len(step.destroyed) :
           /\ step.destroyed[i].kind = "fec"
           /\ step.destroyed[i].heard = <<255, 255, 1>>
    /\ chan["fec"].alive
    /\ chan["fec"].DeviceNumber = 65535

-----------------------------------------------------------------------------
(* Tick hands channel p, which has a transmission in flight, a channel      *)
(* event that is one of events                                              *)
EventInFlight(p, events) ==
    /\ chan[p].alive
    /\ chan[p].m_State # "CH_CLOSED"
    /\ chan[p].m_AckDataRequestOutstanding
    /\ step'.op = "Tick"
    /\ step'.p = p
    /\ IsEvent(step'.frame)
    /\ At(step'.frame, 5) \in events

(* The transmission stays in flight: no reply is reported, and an object    *)
(* that is still there has its queue and its flag as before                 *)
StillInFlight(p) ==
    /\ ReplyCalls(calls') = <<>>
    /\ chan'[p].alive =>
          /\ chan'[p].m_AckDataRequestOutstanding
          /\ chan'[p].m_AckDataQueue = chan[p].m_AckDataQueue

NotReplies(events) ==
    \A p \in Profiles :
        EventInFlight(p, events) =>
            /\ StillInFlight(p)
            /\ At(step'.frame, 5) = EVENT_RX_FAIL /\ chan'[p].alive =>
                  chan'[p].m_MessagesFailed = Inc(chan[p].m_MessagesFailed)

(* C25: with a transmission in flight, EVENT_RX_FAIL,                       *)
(* EVENT_RX_SEARCH_TIMEOUT, EVENT_CHANNEL_CLOSED, EVENT_RX_FAIL_GO_TO_SEARCH *)
(* and RESPONSE_NO_ERROR are not its reply: the queue keeps its front item, *)
(* the flag stays set and OnAcknowledgedDataReply is not called;            *)
(* EVENT_RX_FAIL counts a failed message.                                   *)
C25_EventsAreNotReplies ==
    [][NotReplies({EVENT_RX_FAIL, EVENT_RX_SEARCH_TIMEOUT, EVENT_CHANNEL_CLOSED,
                   EVENT_RX_FAIL_GO_TO_SEARCH, RESPONSE_NO_ERROR})]_vars

(* C25 for the events other than EVENT_RX_FAIL *)
C25_OtherEventsAreNotReplies ==
    [][NotReplies({EVENT_RX_SEARCH_TIMEOUT, EVENT_CHANNEL_CLOSED,
                   EVENT_RX_FAIL_GO_TO_SEARCH, RESPONSE_NO_ERROR})]_vars

(* EVENT_RX_FAIL was reported to the trainer profile as the reply to its    *)
(* transmission                                                             *)
C25_Witness ==
    /\ step.op = "Tick"
    /\ step.p = "fec"
    /\ step.frame = ChannelEvent(1, EVENT_RX_FAIL)
    /\ Len(ReplyCalls(calls)) = 1
    /\ ReplyCalls(calls)[1].event = EVENT_RX_FAIL
    /\ chan["fec"].alive
    /\ ~chan["fec"].m_AckDataRequestOutstanding

(* RESPONSE_NO_ERROR was handed to the trainer's channel and its            *)
(* transmission is still in flight                                          *)
C25_NoErrorIgnored ==
    /\ step.op = "Tick"
    /\ step.p = "fec"
    /\ step.frame = ChannelEvent(1, RESPONSE_NO_ERROR)
    /\ chan["fec"].alive
    /\ chan["fec"].m_AckDataRequestOutstanding
    /\ calls = <<>>

(* EVENT_RX_FAIL_GO_TO_SEARCH was handed to the trainer's channel and its   *)
(* transmission is still in flight                                          *)
C25_GoToSearchInFlight ==
    /\ step.op = "Tick"
    /\ step.p = "fec"
    /\ step.frame = ChannelEvent(1, EVENT_RX_FAIL_GO_TO_SEARCH)
    /\ chan["fec"].alive
    /\ chan["fec"].m_AckDataRequestOutstanding

-----------------------------------------------------------------------------
(* Tick hands channel p, which has a transmission in flight, a              *)
(* CHANNEL_RESPONSE                                                         *)
ResponseInFlight(p) ==
    /\ chan[p].alive
    /\ chan[p].m_State # "CH_CLOSED"
    /\ chan[p].m_AckDataRequestOutstanding
    /\ step'.op = "Tick"
    /\ step'.p = p
    /\ At(step'.frame, 2) = CHANNEL_RESPONSE

(* The events that have a branch of their own *)
OwnEvents ==
    {EVENT_RX_SEARCH_TIMEOUT, EVENT_CHANNEL_CLOSED, EVENT_RX_FAIL_GO_TO_SEARCH,
     RESPONSE_NO_ERROR}

DequeuedOnEvent ==
    \A p \in Profiles :
        ResponseInFlight(p) =>
            IF At(step'.frame, 4) = 1 /\ At(step'.frame, 5) \notin OwnEvents
            THEN ReplyEffect(p)
            ELSE StillInFlight(p)

DequeuedOnResponseToAck ==
    \A p \in Profiles :
        ResponseInFlight(p) /\ At(step'.frame, 4) = ACKNOWLEDGE_DATA => ReplyEffect(p)

C26_ResponseToAckIgnored ==
    /\ step.op = "Tick"
    /\ step.p = "fec"
    /\ step.frame = ChannelReply(1, ACKNOWLEDGE_DATA, CHANNEL_IN_WRONG_STATE)
    /\ calls = <<>>
    /\ chan["fec"].alive
    /\ chan["fec"].m_AckDataRequestOutstanding

-----------------------------------------------------------------------------
(* The request for the id of channel number n, and how often the step wrote *)
(* it                                                                       *)
IdRequest(n) == MakeMessage(REQUEST_MESSAGE, <<n, SET_CHANNEL_ID>>)

IsIdRequest(b, n) ==
    /\ Len(b) = 6
    /\ At(b, 2) = REQUEST_MESSAGE
    /\ At(b, 3) = n
    /\ At(b, 4) = SET_CHANNEL_ID

IdRequestsWritten(n) ==
    Cardinality({i \in 1..Len(written') : IsIdRequest(written'[i], n)})

(* Tick hands channel p, which has number n, no device number and no id     *)
(* request outstanding, a broadcast; the flag is set unless the step raised *)
AskedOnBroadcast(p, n) ==
    /\ step'.op = "Tick"
    /\ step'.p = p
    /\ At(step'.frame, 2) = BROADCAST_DATA
    /\ chan[p].alive
    /\ chan[p].m_ChannelNumber = n
    /\ chan[p].DeviceNumber = 0
    /\ ~chan[p].m_IdReqestOutstanding
    /\ ~step'.threw => chan'[p].m_IdReqestOutstanding

IdRequestGuarded ==
    \A n \in ChannelNumbers :
        /\ IdRequestsWritten(n) <= 1
        /\ IdRequestsWritten(n) = 1 => \E p \in Profiles : AskedOnBroadcast(p, n)

-----------------------------------------------------------------------------
(* The frame is a RESPONSE_CHANNEL_ID that disagrees with the non-zero      *)
(* device type or the non-zero device number of channel p, which is not     *)
(* CH_CLOSED                                                                *)
Mismatch(p, frame) ==
    /\ chan[p].alive
    /\ chan[p].m_State # "CH_CLOSED"
    /\ IsChannelId(frame)
    /\ \/ chan[p].DeviceType # 0 /\ At(frame, 6) # chan[p].DeviceType
       \/ chan[p].DeviceNumber # 0 /\ WireDeviceNumber(frame) # chan[p].DeviceNumber

(* The step raised, and the object of p went to its destructor with the     *)
(* device type, device number and state it had before the step              *)
RaisedUnchanged(p) ==
    /\ step'.threw
    /\ \E i \in 1..Len(step'.destroyed) :
           /\ step'.destroyed[i].kind = chan[p].kind
           /\ step'.destroyed[i].DeviceType = chan[p].DeviceType
           /\ step'.destroyed[i].DeviceNumber = chan[p].DeviceNumber
           /\ step'.destroyed[i].m_State = chan[p].m_State

MismatchRaises(numbers) ==
    \A p \in Profiles :
        ( /\ step'.op = "Tick"
          /\ step'.p = p
          /\ Mismatch(p, step'.frame)
          /\ WireDeviceNumber(step'.frame) \in numbers ) => RaisedUnchanged(p)

(* C28: when a channel is handed a RESPONSE_CHANNEL_ID whose device type    *)
(* differs from its non-zero device type, or whose device number differs    *)
(* from its non-zero device number, the handler raises, and the channel's   *)
(* device type, device number and state are as they were.                   *)
C28_MismatchRaises == [][MismatchRaises(0..1048575)]_vars

(* C28 for the device numbers that fit 16 bits *)
C28_MismatchRaisesBelow65536 == [][MismatchRaises(0..65535)]_vars

(* The trainer's channel, open with a device number, was handed the channel *)
(* id of device 65535 and the handler raised                                *)
C28_Witness ==
    /\ step.op = "Tick"
    /\ step.p = "fec"
    /\ step.frame = ChannelIdResponse(1, <<255, 255, FEC_DEVICE_TYPE, 1>>)
    /\ step.threw
    /\ \E i \in 1..Len(step.destroyed) :
           /\ step.destroyed[i].kind = "fec"
           /\ step.destroyed[i].DeviceNumber = 1
           /\ step.destroyed[i].m_State = "CH_OPEN"

(* The trainer's channel, paired with device 1, was handed the channel id   *)
(* of device 65537 and nothing was raised                                   *)
C28_ForeignDeviceAccepted ==
    /\ step.op = "Tick"
    /\ step.p = "fec"
    /\ step.frame = ChannelIdResponse(1, <<1, 0, FEC_DEVICE_TYPE, 17>>)
    /\ ~step.threw
    /\ chan["fec"].alive
    /\ chan["fec"].heard = <<1, 0, 1>>
    /\ chan["fec"].DeviceNumber = 1

-----------------------------------------------------------------------------
(* The start of the program: AntStick::AntStick calls Reset and QueryInfo,  *)
(* ProcessAntSticks then calls SetNetworkKey.  Every one of them reads with *)
(* AntStick::ReadInternalMessage.  phase is "reset", "query", "key" until   *)
(* the stick is "ready", and "down" when an exception ended the start.      *)

SET_NETWORK_KEY == 70
RESET_SYSTEM == 74
STARTUP_MESSAGE == 111
RESPONSE_VERSION == 62
RESPONSE_CAPABILITIES == 84
RESPONSE_SERIAL_NUMBER == 97

(* AntStick::Reset reads this many times *)
ResetTries == 50

(* The longest run of frames that waits in the reader when a read begins *)
MaxBacklog == 50

(* AntStick::g_AntPlusNetworkKey is not given in the sources; eight bytes *)
NetworkKey == <<1, 2, 3, 4, 5, 6, 7, 8>>

(* The loop of AntStick::Reset: a timeout ends it, STARTUP_MESSAGE empties  *)
(* m_DelayedMessages, any other response is dropped                         *)
RECURSIVE ResetLoop(_, _)
ResetLoop(x, ntries) ==
    IF ntries = 0 THEN x
    ELSE LET y == ReadInternalMessage(x)
         IN  IF y.threw THEN [y EXCEPT !.threw = FALSE]
             ELSE IF Len(y.resp) >= 2 /\ At(y.resp, 2) = STARTUP_MESSAGE
                  THEN [y EXCEPT !.d = <<>>]
                  ELSE ResetLoop(y, ntries - 1)

(* AntStick::Reset: every exception is discarded *)
Reset(x) ==
    LET x1 == WriteMessage(x, MakeMessage(RESET_SYSTEM, <<0>>))
    IN  IF x1.threw THEN [x1 EXCEPT !.threw = FALSE]
        ELSE ResetLoop(x1, ResetTries)

(* One round trip of AntStick::QueryInfo.  The response is not tested for   *)
(* being empty: byte 2 of an empty buffer is whatever the build reads       *)
(* there, took says whether it compared equal to id.                        *)
Query(x, id, took) ==
    LET y == ReadInternalMessage(WriteMessage(x, MakeMessage(REQUEST_MESSAGE, <<0, id>>)))
    IN  IF y.threw THEN y
        ELSE IF y.resp = <<>> THEN [y EXCEPT !.threw = ~took]
        ELSE [y EXCEPT !.threw = (At(y.resp, 2) # id)]

(* AntStick::QueryInfo *)
QueryInfo(x, took) ==
    Query(Query(Query(x, RESPONSE_SERIAL_NUMBER, took), RESPONSE_VERSION, took),
          RESPONSE_CAPABILITIES, took)

(* AntStick::SetNetworkKey *)
SetNetworkKey(x) == Command(x, 0, SET_NETWORK_KEY, NetworkKey, FALSE)

(* What the reader returns while the stick starts: frames of the channels   *)
(* the previous user of the dongle left open, then the responses            *)
Waiting ==
    {Broadcast(1, TrainerPage), BurstData(1), ChannelEvent(1, EVENT_RX_FAIL),
     ChannelReply(1, ACKNOWLEDGE_DATA, 0), ChannelReply(1, BURST_TRANSFER_DATA, 0)}

Backlogs ==
    {<<>>} \cup {[i \in 1..k |-> f] : f \in Waiting, k \in {1, MaxBacklog - 1, MaxBacklog}}

Info(id) == MakeMessage(id, <<1, 2, 3, 4>>)

Infos == <<Info(RESPONSE_SERIAL_NUMBER), Info(RESPONSE_VERSION), Info(RESPONSE_CAPABILITIES)>>

ResetInputs == {b \o r : b \in Backlogs, r \in {<<>>, <<Info(STARTUP_MESSAGE)>>}}

QueryInputs ==
    {b \o SubSeq(Infos, i, j) : b \in Backlogs, i \in 1..3, j \in 0..3}

KeyInputs ==
    {b \o r : b \in Backlogs,
              r \in {<<>>, <<ChannelReply(0, SET_NETWORK_KEY, 0)>>,
                     <<ChannelReply(0, SET_NETWORK_KEY, CHANNEL_IN_WRONG_STATE)>>,
                     <<Info(STARTUP_MESSAGE)>>}}

(* The end of a call made while the stick starts: x is the context the call *)
(* returned, inp what the reader had for it                                 *)
Started(x, op, inp, next) ==
    /\ m_DelayedMessages' = x.d
    /\ m_LastReadMessage' = x.resp
    /\ written' = x.w
    /\ calls' = <<>>
    /\ phase' = IF x.threw THEN "down" ELSE next
    /\ step' = [op |-> op, p |-> "none", frame |-> <<>>, threw |-> x.threw,
                destroyed |-> <<>>, inp |-> inp, wfail |-> x.wfail]
    /\ UNCHANGED <<chan, m_Channels, history, transport, telemetry>>

StickContext(inp, wfail) ==
    Context(NoChannel, m_LastReadMessage, inp, m_DelayedMessages, wfail, 208)

StickReset ==
    /\ phase = "reset"
    /\ \E inp \in ResetInputs, wfail \in 0..1 :
           Started(Reset(StickContext(inp, wfail)), "Reset", inp, "query")

StickQueryInfo ==
    /\ phase = "query"
    /\ \E inp \in QueryInputs, wfail \in 0..1, took \in BOOLEAN :
           Started(QueryInfo(StickContext(inp, wfail), took), "QueryInfo", inp, "key")

StickSetNetworkKey ==
    /\ phase = "key"
    /\ \E inp \in KeyInputs, wfail \in 0..1 :
           Started(SetNetworkKey(StickContext(inp, wfail)), "SetNetworkKey", inp, "ready")

StickInit ==
    /\ chan = [p \in Profiles |-> NoChannel]
    /\ m_Channels = <<>>
    /\ m_DelayedMessages = <<>>
    /\ m_LastReadMessage = <<>>
    /\ phase = "reset"
    /\ written = <<>>
    /\ calls = <<>>
    /\ step = [op |-> "Init", p |-> "none", frame |-> <<>>, threw |-> FALSE,
               destroyed |-> <<>>]
    /\ arrived = <<>>
    /\ usb = NoStream
    /\ TransportInit
    /\ TelemetryInit

StickNext ==
    \/ StickReset
    \/ StickQueryInfo
    \/ StickSetNetworkKey

StickSpec == StickInit /\ [][StickNext]_vars

(* The number of frames at the head of inp that SetAsideMessage names, by   *)
(* message id and inner id                                                  *)
RECURSIVE Lead(_)
Lead(inp) ==
    IF inp = <<>> THEN 0
    ELSE IF \/ At(Head(inp), 2) \in {BROADCAST_DATA, BURST_TRANSFER_DATA}
            \/ /\ At(Head(inp), 2) = CHANNEL_RESPONSE
               /\ At(Head(inp), 4) \in {1, ACKNOWLEDGE_DATA, BURST_TRANSFER_DATA}
         THEN 1 + Lead(Tail(inp))
         ELSE 0

(* The first read of a step that began with inp in the reader: the leading  *)
(* frames of the set-aside kinds, 50 at most, were appended to              *)
(* m_DelayedMessages and nothing else was; with 50 of them the read gave up *)
(* with an empty response, which is an error for the callers in strict;     *)
(* with fewer and nothing after them the read timed out; else the frame     *)
(* after them was the response and was not queued.                          *)
FirstRead(op, strict) ==
    step'.op = op /\ step'.wfail = 0 =>
        LET inp == step'.inp
            k == Lead(inp)
        IN  IF k >= ReadRetries
            THEN /\ m_DelayedMessages' = m_DelayedMessages \o SubSeq(inp, 1, ReadRetries)
                 /\ op \in strict => step'.threw /\ m_LastReadMessage' = <<>>
            ELSE /\ m_DelayedMessages' = m_DelayedMessages \o SubSeq(inp, 1, k)
                 /\ IF k = Len(inp)
                    THEN step'.threw /\ m_LastReadMessage' = <<>>
                    ELSE \/ m_LastReadMessage' = inp[k + 1]
                         \/ op = "QueryInfo" /\ ~step'.threw
                               /\ m_LastReadMessage' = inp[Len(inp)]
                         \/ op = "QueryInfo" /\ step'.threw
                               /\ m_LastReadMessage' \in {inp[j] : j \in (k + 1)..Len(inp)}
                                                           \cup {<<>>}

SyncPath(strict) == FirstRead("QueryInfo", strict) /\ FirstRead("SetNetworkKey", strict)

(* C29: a read of the synchronous request path appends to the delayed queue *)
(* exactly the leading frames that are BROADCAST_DATA, BURST_TRANSFER_DATA  *)
(* or CHANNEL_RESPONSE with inner id 1, ACKNOWLEDGE_DATA or                 *)
(* BURST_TRANSFER_DATA; the first other frame is the response and is not    *)
(* queued; and the read ends with a response, with a timeout, or after 50   *)
(* set-aside frames with an empty response that the caller takes for an     *)
(* error.                                                                   *)
C29_SyncPath == [][SyncPath({"QueryInfo", "SetNetworkKey"})]_vars

(* C29 but for what QueryInfo does with the empty response *)
C29_SyncPathChecked == [][SyncPath({"SetNetworkKey"})]_vars

(* SetNetworkKey found 50 broadcasts before the response: they are queued,  *)
(* the response is empty and the call raised                                *)
C29_Witness ==
    /\ step.op = "SetNetworkKey"
    /\ step.wfail = 0
    /\ step.inp = [i \in 1..ReadRetries |-> Broadcast(1, TrainerPage)]
                      \o <<ChannelReply(0, SET_NETWORK_KEY, 0)>>
    /\ Len(m_DelayedMessages) >= ReadRetries
    /\ m_LastReadMessage = <<>>
    /\ step.threw
    /\ phase = "down"

(* QueryInfo found 50 broadcasts before the version: the serial number was  *)
(* taken from the empty response and the stick went on                      *)
C29_EmptyResponseAccepted ==
    /\ step.op = "QueryInfo"
    /\ step.wfail = 0
    /\ Lead(step.inp) = ReadRetries
    /\ ~step.threw
    /\ phase = "key"

-----------------------------------------------------------------------------
(* Routing.  Frames for the two channels, for channel numbers nobody has,   *)
(* and bursts whose first payload byte carries a sequence number above the  *)
(* channel number.                                                          *)
Burst(first) == MakeMessage(BURST_TRANSFER_DATA, <<first, 1, 2, 3, 4, 5, 6, 7, 8>>)

RouteFrames ==
    {Broadcast(0, HrmPage), Broadcast(1, TrainerPage), Broadcast(2, HrmPage),
     Broadcast(33, TrainerPage), Burst(33), Burst(34), Burst(64),
     ChannelEvent(0, EVENT_CHANNEL_CLOSED), ChannelEvent(1, EVENT_CHANNEL_CLOSED),
     ChannelIdResponse(1, PairingId)}

(* AntStick::Tick, nothing delayed, the reader returns one of these frames *)
TickRouteFrame ==
    /\ phase = "run"
    /\ m_DelayedMessages = <<>>
    /\ \E message \in RouteFrames : Dispatch(message, <<>>, "Tick")
    /\ UNCHANGED <<history, transport, telemetry>>

RouteNext ==
    \/ TickRouteFrame
    \/ TickIdle
    \/ TickReadFails
    \/ TickDelayed
    \/ CheckSensorHealth
    \/ Restart

RouteSpec == Init /\ [][RouteNext]_vars

(* The registered channels that have the channel number of the frame: the   *)
(* first payload byte, for BURST_TRANSFER_DATA its low five bits            *)
Addressed(frame) ==
    LET number == IF At(frame, 2) = BURST_TRANSFER_DATA
                  THEN At(frame, 3) % 32 ELSE At(frame, 3)
    IN  {p \in Profiles :
            /\ \E i \in 1..Len(m_Channels) : m_Channels[i] = p
            /\ chan[p].m_ChannelNumber = number}

(* A Tick took the oldest delayed frame, or with none delayed what the      *)
(* reader had                                                               *)
TookOne ==
    m_DelayedMessages # <<>> =>
        /\ step'.frame = Head(m_DelayedMessages)
        /\ ~step'.threw => IsPrefix(Tail(m_DelayedMessages), m_DelayedMessages')

(* The frame went to the one channel it addresses and to no other, or to    *)
(* none: then no object changed, nothing was written and no hook called     *)
HandedToOne ==
    step'.frame # <<>> =>
        LET hits == Addressed(step'.frame)
        IN  /\ Cardinality(hits) <= 1
            /\ \A p \in hits :
                  /\ step'.p = p
                  /\ ~step'.threw => \A q \in Profiles \ {p} : chan'[q] = chan[q]
            /\ hits = {} =>
                  /\ step'.p = "none"
                  /\ ~step'.threw
                  /\ chan' = chan
                  /\ m_Channels' = m_Channels
                  /\ written' = <<>>
                  /\ calls' = <<>>

OneFrameOneChannel == step'.op = "Tick" => TookOne /\ HandedToOne

(* C30: a Tick takes the oldest delayed frame when one is delayed, else at  *)
(* most one frame from the reader; the frame is handed to the registered    *)
(* channel whose number is its first payload byte (the low five bits of it  *)
(* for BURST_TRANSFER_DATA) and to no other channel; a frame that addresses *)
(* no registered channel changes no channel.                                *)
C30_OneFrameOneChannel == [][OneFrameOneChannel]_vars

(* A burst with first payload byte 0x21 was handed to the trainer's channel *)
C30_Witness ==
    /\ step.op = "Tick"
    /\ step.frame = Burst(33)
    /\ step.p = "fec"
    /\ ~step.threw
    /\ chan["fec"].m_ChannelNumber = 1

(* A broadcast with first payload byte 0x21 was dropped *)
C30_Dropped ==
    /\ step.op = "Tick"
    /\ step.frame = Broadcast(33, TrainerPage)
    /\ step.p = "none"

-----------------------------------------------------------------------------
(* STARTUP_MESSAGE is among the frames the reader had for the step *)
StartupSent(inp) == \E i \in 1..Len(inp) : At(inp[i], 2) = STARTUP_MESSAGE

ResetReturned == step'.op = "Reset" => ~step'.threw /\ phase' = "query"

ResetLeavesNothing == step'.op = "Reset" => m_DelayedMessages' = <<>>

ResetLeavesNothingOnStartup ==
    step'.op = "Reset" /\ step'.wfail = 0 /\ StartupSent(step'.inp) =>
        m_DelayedMessages' = <<>>

(* C31: AntStick::Reset returns without raising whether STARTUP_MESSAGE     *)
(* comes or not, also when the read times out, and when it returns          *)
(* m_DelayedMessages is empty in both cases.                                *)
C31_ResetDropsDelayed == [][ResetReturned /\ ResetLeavesNothing]_vars

(* C31 but for the queue when STARTUP_MESSAGE does not come: Reset always   *)
(* returns, and the queue is empty when STARTUP_MESSAGE was read            *)
C31_ResetReturns == [][ResetReturned /\ ResetLeavesNothingOnStartup]_vars

(* Reset set 49 broadcasts aside, read STARTUP_MESSAGE and emptied the queue *)
C31_Witness ==
    /\ step.op = "Reset"
    /\ step.wfail = 0
    /\ step.inp = [i \in 1..(MaxBacklog - 1) |-> Broadcast(1, TrainerPage)]
                      \o <<Info(STARTUP_MESSAGE)>>
    /\ ~step.threw
    /\ m_DelayedMessages = <<>>
    /\ phase = "query"

(* Reset set a broadcast aside, timed out, and returned with it queued *)
C31_DelayedKept ==
    /\ step.op = "Reset"
    /\ step.wfail = 0
    /\ step.inp = <<Broadcast(1, TrainerPage)>>
    /\ ~step.threw
    /\ m_DelayedMessages = <<Broadcast(1, TrainerPage)>>
    /\ phase = "query"

-----------------------------------------------------------------------------
(* The control traffic of the trainer profile *)

(* The items of a queue without their write counts *)
Items(q) == [i \in 1..Len(q) |-> [tag |-> q[i].tag, data |-> q[i].data]]

CapabilitiesRequest ==
    [tag |-> DP_FE_CAPABILITIES,
     data |-> <<DP_DP_REQUEST, 255, 255, 255, 255, 4, DP_FE_CAPABILITIES, 1>>]

(* Tick handed the trainer's channel, which is not CH_CLOSED, a broadcast   *)
(* and nothing was raised                                                   *)
FecBroadcast ==
    /\ chan["fec"].alive
    /\ chan["fec"].m_State # "CH_CLOSED"
    /\ step'.op = "Tick"
    /\ step'.p = "fec"
    /\ At(step'.frame, 2) = BROADCAST_DATA
    /\ ~step'.threw

(* What the page of the broadcast leaves of the capability status and of    *)
(* m_UpdateUserConfig, before the profile looks at them                     *)
StatusAfterPage ==
    IF At(step'.frame, 4) = DP_FE_CAPABILITIES THEN "CAPABILITIES_RECEIVED"
    ELSE chan["fec"].m_CapabilitiesStatus

ArmedAfterPage ==
    \/ chan["fec"].m_UpdateUserConfig
    \/ /\ At(step'.frame, 4) = DP_TRAINER_SPECIFIC
       /\ ((At(step'.frame, 10) \div 64) % 2) = 1

Enqueued(items) ==
    Items(chan'["fec"].m_AckDataQueue) = Items(chan["fec"].m_AckDataQueue) \o items

EnqueuedByPriority ==
    FecBroadcast =>
        IF chan["fec"].DeviceNumber = 0 THEN Enqueued(<<>>)
        ELSE IF StatusAfterPage = "CAPABILITIES_UNKNOWN"
        THEN /\ Enqueued(<<CapabilitiesRequest>>)
             /\ chan'["fec"].m_CapabilitiesStatus = "CAPABILITIES_REQUESTED"
        ELSE IF ArmedAfterPage
        THEN /\ \E item \in {Items(chan'["fec"].m_AckDataQueue)[
                                 Len(chan'["fec"].m_AckDataQueue)]} :
                    /\ item.tag = DP_USER_CONFIG
                    /\ At(item.data, 0) = DP_USER_CONFIG
                    /\ Enqueued(<<item>>)
             /\ ~chan'["fec"].m_UpdateUserConfig
        ELSE Enqueued(<<>>)

(* The queue holds only what the profile queues after a broadcast *)
OnlyOwnItems(q) ==
    \A i \in 1..Len(q) : q[i].tag \in {DP_FE_CAPABILITIES, DP_USER_CONFIG}

(* The step wrote the first ACKNOWLEDGE_DATA since the channel took its     *)
(* device number                                                            *)
FirstAckAfterPairing ==
    /\ chan["fec"].alive
    /\ chan'["fec"].alive
    /\ chan["fec"].learned # 0
    /\ chan["fec"].DeviceNumber # 0
    /\ chan["fec"].first = 0
    /\ chan'["fec"].first # 0
    /\ OnlyOwnItems(chan["fec"].m_AckDataQueue)

FirstIsRequest == FirstAckAfterPairing => chan'["fec"].first = DP_FE_CAPABILITIES

FirstIsRequestIfUnknown ==
    FirstAckAfterPairing /\ chan'["fec"].first # DP_FE_CAPABILITIES =>
        /\ chan'["fec"].first = DP_USER_CONFIG
        /\ chan["fec"].m_CapabilitiesStatus = "CAPABILITIES_RECEIVED"

C32_ConfigFirst ==
    /\ chan["fec"].alive
    /\ chan["fec"].DeviceNumber = 1
    /\ chan["fec"].first = DP_USER_CONFIG
    /\ chan["fec"].m_CapabilitiesStatus = "CAPABILITIES_RECEIVED"

-----------------------------------------------------------------------------
(* The Track-Resistance pages that can be built from slope s (in 0.01 %) *)
TrackResistancePages(s) ==
    {[tag |-> DP_TRACK_RESISTANCE,
      data |-> <<DP_TRACK_RESISTANCE, 255, 255, 255, 255,
                 ((s + 20000) % 65536) % 256, ((s + 20000) % 65536) \div 256, rr>>] :
        rr \in RawRollingResistance}

(* The step reported one acknowledged transmission to the trainer profile *)
FecReplied ==
    /\ chan["fec"].alive
    /\ chan'["fec"].alive
    /\ step'.op = "Tick"
    /\ step'.p = "fec"
    /\ ~step'.threw
    /\ Len(ReplyCalls(calls')) = 1

(* What the hook left of the capability status, of m_UpdateUserConfig and   *)
(* of the queue behind the reported item                                    *)
HookLeft(status, armed, added) ==
    /\ chan'["fec"].m_CapabilitiesStatus = status
    /\ chan'["fec"].m_UpdateUserConfig = armed
    /\ \E items \in added :
           Items(chan'["fec"].m_AckDataQueue)
               = Items(Tail(chan["fec"].m_AckDataQueue)) \o items

ReplyHook ==
    FecReplied =>
        LET r == ReplyCalls(calls')[1]
            c == chan["fec"]
        IN  IF r.event = EVENT_TRANSFER_TX_COMPLETED
            THEN HookLeft(c.m_CapabilitiesStatus, c.m_UpdateUserConfig, {<<>>})
            ELSE IF r.tag = DP_FE_CAPABILITIES
            THEN HookLeft("CAPABILITIES_UNKNOWN", c.m_UpdateUserConfig, {<<>>})
            ELSE IF r.tag = DP_USER_CONFIG
            THEN HookLeft(c.m_CapabilitiesStatus, TRUE, {<<>>})
            ELSE IF r.tag = DP_TRACK_RESISTANCE
            THEN HookLeft(c.m_CapabilitiesStatus, c.m_UpdateUserConfig,
                          {<<pg>> : pg \in TrackResistancePages(c.m_Slope)})
            ELSE HookLeft(c.m_CapabilitiesStatus, c.m_UpdateUserConfig, {<<>>})

(* C33: when an acknowledged transmission is reported to the trainer        *)
(* profile with an event other than EVENT_TRANSFER_TX_COMPLETED, tag 0x36   *)
(* sets the capability status to UNKNOWN, tag 0x37 sets m_UpdateUserConfig, *)
(* tag 0x33 queues a new Track-Resistance page built from m_Slope; with     *)
(* EVENT_TRANSFER_TX_COMPLETED the hook changes nothing.                    *)
C33_ReplyHook == [][ReplyHook]_vars

(* A Track-Resistance page failed and a new one with the same slope is      *)
(* queued, not yet written                                                  *)
C33_Witness ==
    /\ step.op = "Tick"
    /\ step.p = "fec"
    /\ step.frame = ChannelEvent(1, EVENT_TRANSFER_TX_FAILED)
    /\ Len(ReplyCalls(calls)) = 1
    /\ ReplyCalls(calls)[1].tag = DP_TRACK_RESISTANCE
    /\ chan["fec"].alive
    /\ chan["fec"].m_AckDataQueue # <<>>
    /\ chan["fec"].m_AckDataQueue[Len(chan["fec"].m_AckDataQueue)].tag = DP_TRACK_RESISTANCE
    /\ chan["fec"].m_AckDataQueue[Len(chan["fec"].m_AckDataQueue)].sent = 0
    /\ chan["fec"].m_AckDataQueue[Len(chan["fec"].m_AckDataQueue)].data[6] = 26

-----------------------------------------------------------------------------
(* The user configuration.  FitnessEquipmentControl::SetUserParams stores   *)
(* the three values and sets m_UpdateUserConfig; the values explored are    *)
(* the constructor's, so the page built from them stays the same.           *)
SetUserParams ==
    /\ phase = "run"
    /\ Alive("fec")
    /\ chan' = [chan EXCEPT !["fec"].m_UpdateUserConfig = TRUE]
    /\ written' = <<>>
    /\ calls' = <<>>
    /\ step' = [op |-> "SetUserParams", p |-> "fec", frame |-> <<>>, threw |-> FALSE,
                destroyed |-> <<>>]
    /\ UNCHANGED <<m_Channels, m_DelayedMessages, m_LastReadMessage, phase,
                   history, transport, telemetry>>

ConfigNext ==
    \/ TickAckFrame
    \/ TickIdle
    \/ SetSlope
    \/ SetUserParams
    \/ Restart

ConfigSpec == Init /\ [][ConfigNext]_vars

(* The trainer's object lives through the step *)
FecLives == chan["fec"].alive /\ chan'["fec"].alive /\ step'.op # "Restart"

(* The step reported the user configuration page to the profile, with one   *)
(* of these events                                                          *)
ConfigReported(events) ==
    /\ step'.op = "Tick"
    /\ step'.p = "fec"
    /\ Len(ReplyCalls(calls')) = 1
    /\ ReplyCalls(calls')[1].tag = DP_USER_CONFIG
    /\ ReplyCalls(calls')[1].event \in events

(* The step queued a user configuration page *)
ConfigEnqueued ==
    /\ Len(chan'["fec"].m_AckDataQueue) > 0
    /\ chan'["fec"].m_AckDataQueue[Len(chan'["fec"].m_AckDataQueue)].tag = DP_USER_CONFIG
    /\ chan'["fec"].m_AckDataQueue[Len(chan'["fec"].m_AckDataQueue)].sent = 0
    /\ Items(chan'["fec"].m_AckDataQueue)
           = Items(chan["fec"].m_AckDataQueue)
                 \o <<Items(chan'["fec"].m_AckDataQueue)[Len(chan'["fec"].m_AckDataQueue)]>>

Events == 0..255

SetUntilAcknowledged ==
    FecLives =>
        /\ chan["fec"].m_UpdateUserConfig /\ ~chan'["fec"].m_UpdateUserConfig
              => ConfigReported({EVENT_TRANSFER_TX_COMPLETED})
        /\ ConfigReported({EVENT_TRANSFER_TX_COMPLETED}) => ~chan'["fec"].m_UpdateUserConfig
        /\ ConfigReported(Events \ {EVENT_TRANSFER_TX_COMPLETED})
              => chan'["fec"].m_UpdateUserConfig

(* The step dispatched a Trainer-Specific page with the                     *)
(* user-configuration-required bit to the trainer's channel                 *)
ConfigRequiredRead ==
    /\ step'.op = "Tick"
    /\ step'.p = "fec"
    /\ At(step'.frame, 2) = BROADCAST_DATA
    /\ At(step'.frame, 4) = DP_TRAINER_SPECIFIC
    /\ (At(step'.frame, 10) \div 64) % 2 = 1

ClearedWhenEnqueued ==
    FecLives =>
        /\ ConfigEnqueued => ~chan'["fec"].m_UpdateUserConfig
        /\ chan["fec"].m_UpdateUserConfig /\ ~chan'["fec"].m_UpdateUserConfig
              => ConfigEnqueued
        /\ ConfigReported({EVENT_TRANSFER_TX_COMPLETED})
              => chan'["fec"].m_UpdateUserConfig = chan["fec"].m_UpdateUserConfig
        /\ ConfigReported(Events \ {EVENT_TRANSFER_TX_COMPLETED})
              => chan'["fec"].m_UpdateUserConfig
        /\ ~chan["fec"].m_UpdateUserConfig /\ chan'["fec"].m_UpdateUserConfig
              => \/ ConfigReported(Events \ {EVENT_TRANSFER_TX_COMPLETED})
                 \/ ConfigRequiredRead
                 \/ step'.op = "SetUserParams"

(* C34 as stated: m_UpdateUserConfig stays set from when it is armed until  *)
(* the user configuration page (tag 0x37) is reported with                  *)
(* EVENT_TRANSFER_TX_COMPLETED; that report clears it, a report with        *)
(* another event sets it.                                                   *)
C34_SetUntilAcknowledged == [][SetUntilAcknowledged]_vars

(* C34, amended: m_UpdateUserConfig is cleared when, and only when, the     *)
(* user configuration page is queued; a report of the page with             *)
(* EVENT_TRANSFER_TX_COMPLETED leaves the flag as it is, a report with      *)
(* another event sets it; nothing else sets it but SetUserParams and a      *)
(* Trainer-Specific page with the user-configuration-required bit.          *)
C34_ClearedWhenEnqueued == [][ClearedWhenEnqueued]_vars

(* The user configuration page failed and the flag is set again *)
C34_Witness ==
    /\ step.op = "Tick"
    /\ step.p = "fec"
    /\ step.frame = ChannelEvent(1, EVENT_TRANSFER_TX_FAILED)
    /\ Len(ReplyCalls(calls)) = 1
    /\ ReplyCalls(calls)[1].tag = DP_USER_CONFIG
    /\ chan["fec"].alive
    /\ chan["fec"].m_UpdateUserConfig

(* The user configuration page is queued, not yet written, and the flag is  *)
(* down                                                                     *)
C34_ClearedBeforeWritten ==
    /\ chan["fec"].alive
    /\ ~chan["fec"].m_UpdateUserConfig
    /\ chan["fec"].m_AckDataQueue # <<>>
    /\ Head(chan["fec"].m_AckDataQueue).tag = DP_USER_CONFIG
    /\ Head(chan["fec"].m_AckDataQueue).sent = 0

-----------------------------------------------------------------------------
(* How many user configuration pages a queue holds, the one in flight       *)
(* included                                                                 *)
ConfigPages(q) == Cardinality({i \in 1..Len(q) : q[i].tag = DP_USER_CONFIG})

OneConfigPage == chan["fec"].alive => ConfigPages(chan["fec"].m_AckDataQueue) <= 1

(* A page joins one that is already queued only in a step that began with   *)
(* the flag set or that read the user-configuration-required bit            *)
SecondOnlyWhenRearmed ==
    FecLives /\ ConfigEnqueued /\ ConfigPages(chan["fec"].m_AckDataQueue) >= 1
        => chan["fec"].m_UpdateUserConfig \/ ConfigRequiredRead

(* C37: the trainer channel's queue, the item in flight included, never     *)
(* holds more than one user configuration page (tag 0x37), whatever         *)
(* Trainer-Specific pages, SetUserParams calls and replies arrive.          *)
C37_OneConfigPage == OneConfigPage

(* C37, what does hold: a step queues at most one page, and it queues one   *)
(* next to another only when the flag was set again or the bit was read.    *)
C37_SecondOnlyWhenRearmed == [][SecondOnlyWhenRearmed]_vars

(* The page is in flight and a Trainer-Specific page with the bit has just  *)
(* queued a second one                                                      *)
C37_Witness ==
    /\ chan["fec"].alive
    /\ step.op = "Tick"
    /\ step.p = "fec"
    /\ At(step.frame, 2) = BROADCAST_DATA
    /\ At(step.frame, 4) = DP_TRAINER_SPECIFIC
    /\ (At(step.frame, 10) \div 64) % 2 = 1
    /\ Len(chan["fec"].m_AckDataQueue) = 2
    /\ chan["fec"].m_AckDataQueue[1].tag = DP_USER_CONFIG
    /\ chan["fec"].m_AckDataQueue[1].sent >= 1
    /\ chan["fec"].m_AckDataQueue[2].tag = DP_USER_CONFIG
    /\ chan["fec"].m_AckDataQueue[2].sent = 0

-----------------------------------------------------------------------------
(* The acknowledged data queue over time.  The trainer keeps broadcasting   *)
(* and answers the identification request; the event that reports an        *)
(* acknowledged transfer may come or not, and so may                        *)
(* EVENT_RX_FAIL_GO_TO_SEARCH and the client's SetSlope.                    *)

(* AntStick::Tick, nothing delayed, the reader returns the event for the    *)
(* ACKNOWLEDGE_DATA in flight                                               *)
TickReply ==
    /\ phase = "run"
    /\ m_DelayedMessages = <<>>
    /\ chan["fec"].alive
    /\ chan["fec"].m_AckDataRequestOutstanding
    /\ \E e \in {EVENT_TRANSFER_TX_COMPLETED, EVENT_TRANSFER_TX_FAILED} :
           Dispatch(ChannelEvent(1, e), <<>>, "Tick")
    /\ UNCHANGED <<history, transport, telemetry>>

(* ... the trainer was not heard for too long *)
TickSearch ==
    /\ phase = "run"
    /\ m_DelayedMessages = <<>>
    /\ Dispatch(ChannelEvent(1, EVENT_RX_FAIL_GO_TO_SEARCH), <<>>, "Tick")
    /\ UNCHANGED <<history, transport, telemetry>>

QueueNext ==
    \/ TickBroadcast
    \/ TickIdResponse
    \/ TickReply
    \/ TickSearch
    \/ SetSlope
    \/ Restart

(* Weak fairness of the restart, of the broadcasts and of the answer to the *)
(* identification request, written as in LiveSpec; none for TickReply,      *)
(* TickSearch and SetSlope.                                                 *)
QueueSpec ==
    /\ Init
    /\ [][QueueNext]_vars
    /\ WF_vars(Restart)
    /\ ([]<>~Reading \/ []<><<TickBroadcast>>_vars)
    /\ ([]<>~IdRequested \/ []<><<TickIdResponse>>_vars)

(* The front item has not been written; an item behind the front has not *)
FrontWaits ==
    /\ phase = "run"
    /\ chan["fec"].alive
    /\ chan["fec"].m_State # "CH_CLOSED"
    /\ chan["fec"].m_AckDataQueue # <<>>
    /\ chan["fec"].m_AckDataQueue[1].sent = 0

BehindWaits ==
    /\ phase = "run"
    /\ chan["fec"].alive
    /\ chan["fec"].m_State # "CH_CLOSED"
    /\ Len(chan["fec"].m_AckDataQueue) >= 2
    /\ chan["fec"].m_AckDataQueue[2].sent = 0

(* The step took the front item off the queue, so that the one behind it   *)
(* is the front item now                                                    *)
Advanced ==
    /\ step.op = "Tick"
    /\ step.p = "fec"
    /\ Len(ReplyCalls(calls)) >= 1

(* C35: on a channel that is not CH_CLOSED and keeps receiving              *)
(* BROADCAST_DATA every queued item is written in the end, the event for    *)
(* the item in flight arriving or not, the channel going back to            *)
(* CH_SEARCHING or not: an item behind the front gets to the front (or the  *)
(* channel object is gone), and the front item is written.                  *)
C35_EveryItemWritten ==
    /\ FrontWaits ~> ~FrontWaits
    /\ BehindWaits ~> (Advanced \/ ~BehindWaits)

(* C35, what does hold: the front item is written in the end *)
C35_FrontWritten == FrontWaits ~> ~FrontWaits

(* An item is in flight, one waits behind it, and the channel is searching  *)
(* again                                                                    *)
C35_Witness ==
    /\ BehindWaits
    /\ chan["fec"].m_AckDataRequestOutstanding
    /\ chan["fec"].m_AckDataQueue[1].sent >= 1
    /\ chan["fec"].m_State = "CH_SEARCHING"
    /\ chan["fec"].learned # 0

-----------------------------------------------------------------------------
(* The answer to an identification request and the round trips of another   *)
(* channel.  The trainer channel asks for its channel id; the heart rate    *)
(* channel is closed, unassigned by the EVENT_CHANNEL_CLOSED handler and    *)
(* constructed again by CheckSensorHealth, and the reader may hold the      *)
(* RESPONSE_CHANNEL_ID when one of these round trips reads it.  Here        *)
(* arrived keeps the frames, acknowledgements apart, that the round trips   *)
(* of the last step read.                                                   *)

IdAnswer == ChannelIdResponse(1, PairingId)

(* The dongle answers REQUEST_MESSAGE only when asked *)
IdAnswerDue == chan["fec"].alive /\ chan["fec"].m_IdReqestOutstanding

(* What the reader may hold when a round trip reads it *)
RacePending ==
    {<<>>, <<Broadcast(1, TrainerPage)>>}
    \cup (IF IdAnswerDue THEN {<<IdAnswer>>, <<Broadcast(1, TrainerPage), IdAnswer>>}
          ELSE {})

(* What the reader may return to a Tick *)
RaceFrames ==
    {Broadcast(1, TrainerPage), Broadcast(0, HrmPage),
     ChannelEvent(0, EVENT_CHANNEL_CLOSED),
     ChannelEvent(1, EVENT_RX_FAIL_GO_TO_SEARCH)}
    \cup (IF IdAnswerDue THEN {IdAnswer} ELSE {})

RaceReplies(channel, cmds) == {pre \o GoodReplies(channel, cmds) : pre \in RacePending}

RaceAttemptsFor(p, message) ==
    IF /\ At(message, 2) = CHANNEL_RESPONSE /\ At(message, 4) = 1
       /\ At(message, 5) = EVENT_CHANNEL_CLOSED /\ chan[p].m_State # "CH_CLOSED"
    THEN RaceReplies(chan[p].m_ChannelNumber, <<UNASSIGN_CHANNEL>>)
    ELSE {<<>>}

RaceDelivered(x, p, message, inp) ==
    /\ Delivered(x, p, message, "Tick")
    /\ arrived' = OrderRead(inp, x)

(* The rest of AntStick::Tick once m_LastReadMessage holds a frame *)
RaceDispatch(message, d) ==
    LET p == Route(message)
    IN  IF p = "none"
        THEN /\ UNCHANGED <<chan, m_Channels, phase>>
             /\ m_DelayedMessages' = d
             /\ m_LastReadMessage' = message
             /\ written' = <<>>
             /\ calls' = <<>>
             /\ step' = [op |-> "Tick", p |-> "none", frame |-> message, threw |-> FALSE,
                         destroyed |-> <<>>]
             /\ arrived' = <<>>
        ELSE \E rr \in OutcomesFor(p, message) :
             \E inp \in RaceAttemptsFor(p, message) :
             \E x \in {HandleMessage(Context(chan[p], message, inp, d, 0, rr), message)} :
                RaceDelivered(x, p, message, inp)

(* AntStick::Tick, nothing delayed, the reader returns a frame *)
RaceTick ==
    /\ phase = "run"
    /\ m_DelayedMessages = <<>>
    /\ \E message \in RaceFrames : RaceDispatch(message, <<>>)
    /\ UNCHANGED <<transport, telemetry>>

(* AntStick::Tick with a delayed frame *)
RaceTickDelayed ==
    /\ phase = "run"
    /\ m_DelayedMessages # <<>>
    /\ RaceDispatch(Head(m_DelayedMessages), Tail(m_DelayedMessages))
    /\ UNCHANGED <<transport, telemetry>>

RaceHealthAttempts(cs, reg, p) ==
    IF IsClosed(cs, p)
    THEN RaceReplies(NextChannelId(UsedNumbers(cs, Remove(reg, p))), ConstructorCommands)
    ELSE {<<>>}

RaceHealthChecked(r1, r2, read) ==
    /\ HealthChecked(r2, r1.gone)
    /\ arrived' = read

RaceHrmChecked(r1, inp1) ==
    IF r1.x.threw
    THEN /\ Unwind(r1.cs, r1.x, "CheckSensorHealth", "hrm", <<>>, r1.gone)
         /\ arrived' = OrderRead(inp1, r1.x)
    ELSE \E inp2 \in RaceHealthAttempts(r1.cs, r1.reg, "fec") :
         \E r2 \in {Replaced(r1.cs, r1.reg, r1.x, "fec", [inp |-> inp2, wfail |-> 0])} :
            RaceHealthChecked(r1, r2, OrderRead(inp1, r1.x) \o OrderRead(inp2, r2.x))

(* TelemetryServer::CheckSensorHealth, when some profile is CH_CLOSED *)
RaceCheckSensorHealth ==
    /\ phase = "run"
    /\ \E p \in Profiles : IsClosed(chan, p)
    /\ \E inp1 \in RaceHealthAttempts(chan, m_Channels, "hrm") :
       \E r1 \in {Replaced(chan, m_Channels, HealthContext, "hrm",
                           [inp |-> inp1, wfail |-> 0])} :
          RaceHrmChecked(r1, inp1)
    /\ UNCHANGED <<transport, telemetry>>

RaceNext ==
    \/ RaceTick
    \/ RaceTickDelayed
    \/ RaceCheckSensorHealth
    \/ Restart

RaceSpec == Init /\ [][RaceNext]_vars

(* The step's round trips read a RESPONSE_CHANNEL_ID *)
IdAnswerRead ==
    /\ step.op \in {"Tick", "CheckSensorHealth"}
    /\ \E i \in 1..Len(arrived) : IsChannelId(arrived[i])

(* ... and it waits in m_DelayedMessages for the Tick that hands it to its  *)
(* channel                                                                  *)
IdAnswerKept ==
    /\ ~step.threw
    /\ phase = "run"
    /\ \A i \in 1..Len(arrived) :
          IsChannelId(arrived[i]) =>
              \E j \in 1..Len(m_DelayedMessages) : m_DelayedMessages[j] = arrived[i]

(* C36: a RESPONSE_CHANNEL_ID that answers the identification request of a  *)
(* channel reaches that channel's handler also when a round trip made for   *)
(* another channel (a construction, UNASSIGN_CHANNEL) reads it: it is set   *)
(* aside for Tick and not taken as the round trip's response.               *)
C36_IdAnswerKept == IdAnswerRead => IdAnswerKept

(* C36, what does hold: a RESPONSE_CHANNEL_ID that Tick itself reads is     *)
(* handed to the channel whose number it carries, and that channel's        *)
(* request is no longer outstanding.                                        *)
C36_IdAnswerOnTick ==
    [][( /\ step'.op = "Tick"
         /\ IsChannelId(step'.frame)
         /\ m_DelayedMessages = <<>>
         /\ chan["fec"].alive
         /\ ~step'.threw )
        => /\ step'.p = "fec"
           /\ chan'["fec"].alive
           /\ ~chan'["fec"].m_IdReqestOutstanding]_vars

(* The EVENT_CHANNEL_CLOSED handler of the heart rate channel read the      *)
(* trainer channel's RESPONSE_CHANNEL_ID as the response to                 *)
(* UNASSIGN_CHANNEL and raised                                              *)
C36_Witness ==
    /\ step.op = "Tick"
    /\ step.p = "hrm"
    /\ step.frame = ChannelEvent(0, EVENT_CHANNEL_CLOSED)
    /\ step.threw
    /\ arrived = <<IdAnswer>>

(* The same in the constructor CheckSensorHealth runs for the heart rate    *)
(* channel                                                                  *)
C36_TakenByConstructor ==
    /\ step.op = "CheckSensorHealth"
    /\ step.threw
    /\ arrived = <<IdAnswer>>

====
